---- MODULE Spec2Model ----
(***************************************************************************)
(* dotproxy: the MRU queue (internal/data), the persistent connection pool *)
(* and its PersistentConn wrapper (internal/network) and the retrying      *)
(* upstream transaction of DNSProxyHandler (internal/protocol).            *)
(*                                                                         *)
(* Time is a clock of ticks, TicksPerSec ticks to the second, so that the  *)
(* whole-second timestamps of MRUQueue.Push differ from the clock.         *)
(* Sequences are 1-indexed; the heap code is 0-indexed, so heap index k is *)
(* position k+1 of the sequence.                                           *)
(***************************************************************************)
EXTENDS Integers, Sequences, FiniteSets, Bags, TLC

\* ---------------------------------------------------------------- bounds
\* Processes: concurrent requests (or API callers).
NumProcs == 2
\* Connections the dialer can open before every further dial fails.
MaxConns == 2
\* Last tick of the clock.
MaxTime == 2
\* Clock ticks per wall-clock second.
TicksPerSec == 2
\* Largest configured pool capacity.
MaxCapacity == 1
\* Largest capacity of the pool that starts filled.
RefillCapacity == 2
\* Largest configured MaxUpstreamRetries in the concurrent specification.
MaxRetriesCfg == 2
\* Release calls (Close or Destroy) an API caller makes on one wrapper.
MaxCalls == 2
\* The positive stale timeout, in ticks.
StaleTicks == 1
\* Goroutines spawned with "go" that may be waiting to run at one time.
MaxPending == 3
\* The same with the default retry budget, where one request spawns 17.
DefaultPending == 1
\* Wrappers the API callers are handed in all.
MaxWrappers == 2
\* Entries of the stand-alone queue with the capacity limit disabled, and its
\* largest capacity.
MaxQueueLen == 4

\* Child clients behind the sharded client.
NumClients == 2
\* Goroutines calling the sharded client's Conn().
NumCallers == 2
\* Times the wall clock moves.
MaxAdvances == 3
\* Sharded Conn() calls started in one behaviour.
MaxShardCalls == 2
\* Sharded Conn() calls started in one behaviour under the policies that keep
\* no backoff state.
MaxPolicyCalls == 5
\* Child Conn() calls one sharded Conn() call makes before the model stops it.
MaxDelegations == 3
\* The wall clock at construction, in milliseconds.
StartTime == 1
\* Failures of the first client before the behaviour of the backoff
\* specification begins: the fewest and the most.
MinPriorFailures == 9
MaxPriorFailures == 10
\* The steps of the wall clock, in milliseconds.
ShortStep == 100
LongStep == 30000

\* The longest message of which every content is tried.
MaxMsgLen == 2
\* The byte the long messages are filled with.
FillByte == 7

\* Remote peers that send datagrams to the UDP socket.
NumPeers == 2
\* Read and Write calls made on one UDPConn used directly.
MaxUDPCalls == 4
\* Read calls that return in the UDP workers in one behaviour.
MaxReads == 3
\* UDP workers whose Read calls return; the others wait for a datagram.
MaxBusy == 3
\* Accept calls that return in the TCP listener in one behaviour.
MaxAccepts == 4
\* The largest MaxConcurrentConnections configured above zero.
MaxWorkersCfg == 2

\* ------------------------------------------------------ program constants
\* clientReq := make([]byte, 1024).
ReadBufferSize == 1024
\* maxRetries = 16 when MaxUpstreamRetries <= 0.
DefaultMaxRetries == 16
\* failedClientExpiry := 30 * time.Second, in milliseconds.
FailedClientExpiry == 30000
\* c.errorExpiry[client] = 100 * time.Millisecond.
InitialExpiry == 100
\* time.Time{}, the zero time.
ZeroTime == 0
\* opts.MaxConcurrentConnections = 16 when it is <= 0.
DefaultMaxConcurrent == 16

Clients == 1..NumClients
Callers == 1..NumCallers
Policies == {"RoundRobin", "Random", "HistoricalConnections", "Availability", "Failover"}

Procs == 1..NumProcs
\* The values callers push into the stand-alone queue.
QValues == 1..MaxQueueLen
\* The connections the initial fill can dial: iteration i dials connection i+1.
FillConns == MaxCapacity + 1
\* The dials of a request with the default retry budget: one per transaction.
DefaultDials == DefaultMaxRetries + 1
\* Every connection: the initial fill's, then those dialled on demand.
AllConns ==
    1..(FillConns + (IF MaxConns > DefaultDials THEN MaxConns ELSE DefaultDials))
\* The nil value of a popped interface{} / a missing connection.
Nil == 0

\* ------------------------------------------------- PriorityQueue and heap
\* Less with the comparison the wrong way round: a min heap.
LessMin(h, i, j) == h[i + 1].priority < h[j + 1].priority

\* PriorityQueue.Less: a higher priority is "less", so the heap is a max heap.
Less(h, i, j) == h[i + 1].priority > h[j + 1].priority

\* PriorityQueue.Swap (the index field of Item is bookkeeping for update()
\* only and is left out).
Swap(h, i, j) == [h EXCEPT ![i + 1] = h[j + 1], ![j + 1] = h[i + 1]]

\* container/heap up(h, j): sift the entry at j towards the root.
RECURSIVE up(_, _)
up(h, j) ==
    LET i == (j - 1) \div 2 IN
    IF j = 0 \/ i = j \/ ~Less(h, j, i) THEN h
    ELSE up(Swap(h, j, i), i)

\* The child of i that container/heap down() compares with i, given n entries.
downChild(h, i, n) ==
    LET j1 == 2 * i + 1
        j2 == j1 + 1
    IN IF j2 < n /\ Less(h, j2, j1) THEN j2 ELSE j1

\* container/heap down(h, i, n): sift the entry at i towards the leaves.
RECURSIVE down(_, _, _)
down(h, i, n) ==
    IF 2 * i + 1 >= n THEN h
    ELSE LET j == downChild(h, i, n) IN
         IF ~Less(h, j, i) THEN h
         ELSE down(Swap(h, i, j), j, n)

\* heap.Push: PriorityQueue.Push appends, then up(Len-1).
HeapPush(h, item) == up(Append(h, item), Len(h))

\* heap.Pop: Swap(0, n), down(0, n), then PriorityQueue.Pop removes the last.
HeapPop(h) ==
    LET n == Len(h) - 1
        g == down(Swap(h, 0, n), 0, n)
    IN [item |-> g[n + 1], store |-> SubSeq(g, 1, n)]

\* ----------------------------------------------------------------- MRUQueue
\* int(time.Now().Unix()): the clock truncated to whole seconds.
UnixSeconds(t) == t \div TicksPerSec

\* time.Unix(sec, 0) on the clock's scale.
TimeUnix(sec) == sec * TicksPerSec

\* Push that refuses at the capacity whatever its sign.
MRUPushAnyCapacity(q, cap, v, t) ==
    IF Len(q) >= cap
    THEN [ok |-> FALSE, store |-> q]
    ELSE [ok |-> TRUE,
          store |-> HeapPush(q, [value |-> v, priority |-> UnixSeconds(t), at |-> t])]

\* Push without the capacity test.
MRUPushNoLimit(q, cap, v, t) ==
    [ok |-> TRUE,
     store |-> HeapPush(q, [value |-> v, priority |-> UnixSeconds(t), at |-> t])]

\* MRUQueue.Push(value) at clock t on a queue of capacity cap.
MRUPush(q, cap, v, t) ==
    IF cap > 0 /\ Len(q) = cap
    THEN [ok |-> FALSE, store |-> q]
    ELSE [ok |-> TRUE,
          store |-> HeapPush(q, [value |-> v, priority |-> UnixSeconds(t), at |-> t])]

\* Pop that returns the entry and leaves it in the store.
MRUPopKeep(q) ==
    IF Len(q) = 0
    THEN [ok |-> FALSE, value |-> Nil, timestamp |-> TimeUnix(0), at |-> 0, store |-> q]
    ELSE LET r == HeapPop(q) IN
         [ok |-> TRUE, value |-> r.item.value,
          timestamp |-> TimeUnix(r.item.priority), at |-> r.item.at, store |-> q]

\* MRUQueue.Pop().
MRUPop(q) ==
    IF Len(q) = 0
    THEN [ok |-> FALSE, value |-> Nil, timestamp |-> TimeUnix(0), at |-> 0, store |-> q]
    ELSE LET r == HeapPop(q) IN
         [ok |-> TRUE, value |-> r.item.value,
          timestamp |-> TimeUnix(r.item.priority), at |-> r.item.at,
          store |-> r.store]

\* MRUQueue.Size().
Size(q) == Len(q)

\* -------------------------------------------------------------------- state
VARIABLES
    now,                \* the clock, in ticks
    capacity,           \* PersistentConnPoolOpts.Capacity (the queue's capacity)
    staleTimeout,       \* PersistentConnPoolOpts.StaleTimeout, in ticks
    maxUpstreamRetries, \* DNSProxyOpts.MaxUpstreamRetries
    api,                \* TRUE: the processes call the pool's API directly
    dialLimit,          \* connections dialled on demand before the dialer only fails
    maxPending,         \* goroutines the scheduler lets wait at one time
    store,              \* MRUQueue.store: the heap of Items
    nextConn,           \* connections dialled on demand so far
    closeCalls,         \* closeCalls[c]: calls of Close() on the net.Conn c
    handedOut,          \* the connections Conn() has returned so far
    fillI,              \* loop index i of the initial fill goroutine
    fillDialled,        \* the connections the initial fill has dialled
    wrappers,           \* the PersistentConn wrappers still referenced
    tasks,              \* goroutines spawned with "go" and not yet run
    pc,                 \* pc[p]: where process p stands
    retries,            \* retries[p]: the retries argument of proxyUpstream
    upstream,           \* upstream[p]: the wrapper p holds (index), or Nil
    stale,              \* stale[p]: the stale conn the running Conn() discarded
    count,              \* count[p]: what request p has done so far
    lastPop,            \* the stand-alone queue's last Pop: result and pre-state
    order,              \* the stand-alone queue's resident values, oldest first
    lastPush,           \* the stand-alone queue's last Push: result and pre-state
    policy,             \* the LoadBalancingPolicy of the sharded client
    wall,               \* the wall clock of the sharded client, in milliseconds
    advances,           \* how often the wall clock has moved
    lastError,          \* AvailabilityShardedClient.lastError
    errorExpiry,        \* AvailabilityShardedClient.errorExpiry, in milliseconds
    rrIdx,              \* RoundRobinShardedClient.rrIdx
    stats,              \* stats[c]: the Stats() of child client c
    call,               \* call[p]: the sharded Conn() call of caller p
    completed,          \* sharded Conn() calls that have returned
    failTimes,          \* failTimes[c]: when the failures of c were recorded
    overlapped,         \* two sharded Conn() calls have run at the same time
    transport,          \* the Transport in the context of the framed request
    fpc,                \* where the framed request stands
    clientMsg,          \* the bytes the client sent
    clientReq,          \* Handle's clientReq
    wire,               \* the bytes written to the upstream connection
    answer,             \* the payload the upstream answered with
    upstreamResp,       \* Handle's upstreamResp
    clientOut,          \* the bytes written back to the client
    udpOpts,            \* UDPServerOpts, and how the UDP code is driven
    workers,            \* the UDP worker goroutines: position and UDPConn
    socket,             \* the shared net.PacketConn and what went through it
    lastIO,             \* the last Read or Write on the UDPConn used directly
    listener,           \* the TCP accept loop and what it has reported
    accepted            \* the accepted TCP connections and their goroutines

vars == <<now, capacity, staleTimeout, maxUpstreamRetries, api, dialLimit, maxPending, store,
          nextConn, closeCalls, handedOut, fillI, fillDialled, wrappers, tasks, pc, retries,
          upstream, stale, count, lastPop, order, lastPush, policy, wall, advances,
          lastError, errorExpiry, rrIdx, stats, call, completed, failTimes, overlapped,
          transport,
          fpc, clientMsg, clientReq, wire, answer, upstreamResp, clientOut, udpOpts,
          workers, socket, lastIO, listener, accepted>>

cfgVars == <<capacity, staleTimeout, maxUpstreamRetries, api, dialLimit, maxPending>>
queueGhost == <<lastPop, order, lastPush>>
procVars == <<pc, retries, upstream, stale, count>>
shardVars == <<policy, wall, advances, lastError, errorExpiry, rrIdx, stats, call,
               completed, failTimes, overlapped>>
frameVars == <<transport, fpc, clientMsg, clientReq, wire, answer, upstreamResp,
               clientOut>>
udpVars == <<udpOpts, workers, socket, lastIO, listener, accepted>>

Peers == 1..NumPeers

NoIO == [op |-> "none", err |-> "nil", before |-> Nil, after |-> Nil,
         socketRead |-> FALSE, from |-> Nil, to |-> Nil]

\* NewUDPConn(conn, readTimeout, writeTimeout): remote is nil.
NewUDPConn == [remote |-> Nil]

\* The packet socket after net.ListenPacket: nothing read, nothing sent; made
\* counts the UDPConn values made over it.
NewSocket(made) ==
    [made |-> made, reads |-> 0, sent |-> <<>>, calls |-> 0, consumed |-> 0,
     failed |-> 0]

\* The TCP listener after net.Listen: the accept loop runs; no Accept has
\* returned, nothing has been reported to the connection hook
\* (EmitConnectionError, EmitConnectionOpen, EmitConnectionClose) or passed to
\* ConsumeError.
NewListener ==
    [looping |-> TRUE, accepts |-> 0, connectionErrors |-> 0, opens |-> 0,
     closeEmits |-> 0, consumed |-> 0]

\* The UDP code driven as mode says: "none" (not at all), "api" (one UDPConn
\* whose Read and Write are called in any order) or "serve" (ListenAndServe).
UDPInit(mode, configured, timeouts) ==
    /\ \E n \in configured, rt \in timeouts, wt \in timeouts :
          udpOpts = [mode |-> mode, MaxConcurrentConnections |-> n,
                     ReadTimeout |-> rt, WriteTimeout |-> wt]
    /\ workers = IF mode = "api"
                 THEN <<[pc |-> "api", conn |-> NewUDPConn, errors |-> 0]>>
                 ELSE <<>>
    /\ socket = NewSocket(IF mode = "api" THEN 1 ELSE 0)
    /\ lastIO = NoIO
    /\ listener = NewListener
    /\ accepted = <<>>

NoUDP == UDPInit("none", {0}, {0})

NoPop == [ok |-> FALSE, value |-> Nil, timestamp |-> 0, before |-> <<>>,
          after |-> <<>>, newest |-> Nil, valid |-> FALSE]

NoPush == [ok |-> FALSE, value |-> Nil, before |-> <<>>, after |-> <<>>,
           valid |-> FALSE]

\* No stale connection discarded.
NoStale == [conn |-> Nil, age |-> 0, idle |-> 0]

\* A request that has done nothing yet: upstreamTransact calls, EmitRetry
\* observations, connections acquired, Close() and Destroy() calls issued,
\* Read and Write calls on the client's connection, EmitError observations.
NoCount == [attempts |-> 0, retryEmits |-> 0, acquired |-> 0, closes |-> 0,
            destroys |-> 0, clientReads |-> 0, clientWrites |-> 0,
            errorEmits |-> 0]

\* DNSProxyHandler.ConsumeError: h.ProxyHook.EmitError(), counted with the
\* request whose error it is.
ConsumeError(c) == [c EXCEPT !.errorEmits = @ + 1]

\* The listener consumes whatever Handle returned, nil or not.
ServeAlways(c, failed) == ConsumeError(c)

\* The listener once Handle has returned:
\* if err := handler.Handle(ctx, conn); err != nil { handler.ConsumeError(ctx, err) }
Serve(c, failed) == IF failed THEN ConsumeError(c) ELSE c

\* The state after construction: NewMRUQueue(capacity) is empty, the initial
\* fill goroutine has not dialled yet, no request has arrived.
\* active are the processes that will run, limit the dialer's bound, pending
\* the scheduler's.
NoCall == [pc |-> "idle", target |-> Nil, scan |-> 0, eligible |-> {},
           delegations |-> 0, ok |-> FALSE, tmp |-> 0, tried |-> <<>>,
           minima |-> {}, steady |-> FALSE]

\* NewShardedClient(clients, pol): the maps of the availability policy hold
\* the zero time and 0 for every client, rrIdx is 0, no client has been asked.
ShardedInit(pol) ==
    /\ policy = pol
    /\ wall = StartTime
    /\ advances = 0
    /\ lastError = [c \in Clients |-> ZeroTime]
    /\ errorExpiry = [c \in Clients |-> 0]
    /\ rrIdx = 0
    /\ stats = [c \in Clients |-> [successful |-> 0, failed |-> 0]]
    /\ call = [p \in Callers |-> NoCall]
    /\ completed = 0
    /\ failTimes = [c \in Clients |-> <<>>]
    /\ overlapped = FALSE

\* A request over transport tr of which nothing has been read yet.
FrameInit(tr) ==
    /\ transport = tr
    /\ fpc = "idle"
    /\ clientMsg = <<>>
    /\ clientReq = <<>>
    /\ wire = <<>>
    /\ answer = <<>>
    /\ upstreamResp = <<>>
    /\ clientOut = <<>>

InitWith(caps, stales, retrySet, apiMode, active, limit, pending) ==
    /\ now = 0
    /\ capacity \in caps
    /\ staleTimeout \in stales
    /\ maxUpstreamRetries \in retrySet
    /\ api = apiMode
    /\ dialLimit = limit
    /\ maxPending = pending
    /\ store = <<>>
    /\ nextConn = 0
    /\ closeCalls = [c \in AllConns |-> 0]
    /\ handedOut = {}
    /\ fillI = 0
    /\ fillDialled = {}
    /\ wrappers = <<>>
    /\ tasks = {}
    /\ pc = [p \in Procs |-> IF p \notin active THEN "off"
                            ELSE IF apiMode THEN "api" ELSE "idle"]
    /\ retries = [p \in Procs |-> 0]
    /\ upstream = [p \in Procs |-> Nil]
    /\ stale = [p \in Procs |-> NoStale]
    /\ count = [p \in Procs |-> NoCount]
    /\ lastPop = NoPop
    /\ order = <<>>
    /\ lastPush = NoPush

\* Time passes.
Tick ==
    /\ now < MaxTime
    /\ now' = now + 1
    /\ UNCHANGED <<cfgVars, store, nextConn, closeCalls, handedOut, fillI, fillDialled, wrappers,
                   tasks, procVars, queueGhost, shardVars, frameVars, udpVars>>

\* --------------------------------------------------- the stand-alone queue
Resident(q) == {q[k].value : k \in 1..Len(q)}

RemoveValue(s, v) == SelectSeq(s, LAMBDA x : x # v)

\* A caller pushes a value that is not in the queue.
QPush(v) ==
    /\ v \notin Resident(store)
    /\ capacity > 0 \/ Len(store) < MaxQueueLen
    /\ LET r == MRUPush(store, capacity, v, now) IN
       /\ store' = r.store
       /\ order' = IF r.ok THEN Append(order, v) ELSE order
       /\ lastPush' = [ok |-> r.ok, value |-> v, before |-> store,
                       after |-> r.store, valid |-> TRUE]
    /\ UNCHANGED <<now, cfgVars, nextConn, closeCalls, handedOut, fillI, fillDialled, wrappers,
                   tasks, procVars, lastPop, shardVars, frameVars, udpVars>>

\* A caller pops.
QPop ==
    /\ LET r == MRUPop(store) IN
       /\ store' = r.store
       /\ lastPop' = [ok |-> r.ok, value |-> r.value, timestamp |-> r.timestamp,
                      before |-> store, after |-> r.store,
                      newest |-> IF order = <<>> THEN Nil ELSE order[Len(order)],
                      valid |-> TRUE]
       /\ order' = IF r.ok THEN RemoveValue(order, r.value) ELSE order
    /\ UNCHANGED <<now, cfgVars, nextConn, closeCalls, handedOut, fillI, fillDialled, wrappers,
                   tasks, procVars, lastPush, shardVars, frameVars, udpVars>>

InitMRU == InitWith(-1..MaxQueueLen, {0}, {0}, FALSE, {}, MaxConns, MaxPending) /\ ShardedInit("none") /\ FrameInit("none") /\ NoUDP

NextMRU ==
    \/ Tick
    \/ \E v \in QValues : QPush(v)
    \/ QPop

SpecMRU == InitMRU /\ [][NextMRU]_vars

\* ------------------------------------------- PersistentConnPool, PersistentConn
\* Conn without the staleness test.
IsFreshAlways(timeout, t, timestamp) == TRUE

\* The freshness test of PersistentConnPool.Conn on a popped entry:
\* p.staleTimeout <= 0 || time.Since(timestamp) < p.staleTimeout.
IsFresh(timeout, t, timestamp) == timeout <= 0 \/ t - timestamp < timeout

\* NewPersistentConn(conn, closerFactory(conn)) for process p. popAge is the age
\* time.Since(timestamp) of a popped connection (-1 for a dialled one) and
\* discarded the stale connection this Conn() call threw away (Nil if none).
\* The other fields record what happened to the wrapper: the outcome of its
\* transaction, the Close() and Destroy() calls issued on it, which came first,
\* and how often its closer pushed the connection or closed the stream.
NewPersistentConn(conn, p, age, thrown) ==
    [conn |-> conn, destroyed |-> FALSE, owner |-> p, popAge |-> age,
     discarded |-> thrown.conn, discardedAge |-> thrown.age, txn |-> "none",
     closeIssued |-> 0, destroyIssued |-> 0, firstOp |-> "none",
     pushes |-> 0, closes |-> 0]

\* The slot of a wrapper nothing refers to any more.
Dead == NewPersistentConn(Nil, Nil, -1, NoStale)

Live == {i \in 1..Len(wrappers) : wrappers[i].conn # Nil}

\* Forget the unreferenced wrappers at the end.
RECURSIVE Trim(_)
Trim(ws) ==
    IF ws # <<>> /\ ws[Len(ws)] = Dead THEN Trim(SubSeq(ws, 1, Len(ws) - 1)) ELSE ws

\* The slot a new wrapper takes: the first unreferenced one.
FreeSlot ==
    IF \E i \in 1..Len(wrappers) : wrappers[i] = Dead
    THEN CHOOSE i \in 1..Len(wrappers) :
             /\ wrappers[i] = Dead
             /\ \A j \in 1..(i - 1) : wrappers[j] # Dead
    ELSE Len(wrappers) + 1

WithWrapper(w) ==
    IF FreeSlot <= Len(wrappers)
    THEN [wrappers EXCEPT ![FreeSlot] = w]
    ELSE Append(wrappers, w)

\* PersistentConnPool.put(conn) at clock t: push, and close when Push refuses.
put(q, cap, conn, t) ==
    LET r == MRUPush(q, cap, conn, t) IN
    [store |-> r.store, pushed |-> r.ok, closed |-> ~r.ok]

\* The closer callback closerFactory(conn) builds, called with destroyed.
closer(q, cap, conn, destroyed, t) ==
    IF destroyed
    THEN [store |-> q, pushed |-> FALSE, closed |-> TRUE]
    ELSE put(q, cap, conn, t)

\* PersistentConn.Close() on wrapper record w: c.closer(c.destroyed).
PersistentConnClose(w, q, cap, t) == closer(q, cap, w.conn, w.destroyed, t)

\* PersistentConn.Destroy(): c.destroyed = true, then Close().
MarkDestroyed(w) == [w EXCEPT !.destroyed = TRUE]

\* The state change of one run of PersistentConn.Close() on the wrapper in slot
\* i, whose record has already become w. A request's wrapper is unreferenced
\* once its release goroutine has run; an API caller keeps its wrappers.
RunCloser(i, w) ==
    LET r == PersistentConnClose(w, store, capacity, now)
        done == [w EXCEPT !.pushes = IF r.pushed THEN @ + 1 ELSE @,
                          !.closes = IF r.closed THEN @ + 1 ELSE @]
    IN
    /\ store' = r.store
    /\ closeCalls' = IF r.closed
                     THEN [closeCalls EXCEPT ![w.conn] = @ + 1]
                     ELSE closeCalls
    /\ wrappers' = IF api THEN [wrappers EXCEPT ![i] = done]
                   ELSE Trim([wrappers EXCEPT ![i] = Dead])

GoTask(op, i, c) == [op |-> op, w |-> i, conn |-> c]

\* The scheduler lets at most maxPending spawned goroutines wait.
CanSpawn == Cardinality(tasks) < maxPending

\* The goroutine of "go upstream.Close()" runs.
RunClose(t) ==
    /\ t \in tasks /\ t.op = "Close"
    /\ RunCloser(t.w, wrappers[t.w])
    /\ tasks' = tasks \ {t}
    /\ UNCHANGED <<now, cfgVars, nextConn, handedOut, fillI, fillDialled, procVars, queueGhost, shardVars, frameVars, udpVars>>

\* The goroutine of "go upstream.Destroy()" runs.
RunDestroy(t) ==
    /\ t \in tasks /\ t.op = "Destroy"
    /\ RunCloser(t.w, MarkDestroyed(wrappers[t.w]))
    /\ tasks' = tasks \ {t}
    /\ UNCHANGED <<now, cfgVars, nextConn, handedOut, fillI, fillDialled, procVars, queueGhost, shardVars, frameVars, udpVars>>

\* The goroutine of "go conn.Close()" on a stale connection runs.
RunStaleClose(t) ==
    /\ t \in tasks /\ t.op = "StaleClose"
    /\ closeCalls' = [closeCalls EXCEPT ![t.conn] = @ + 1]
    /\ tasks' = tasks \ {t}
    /\ UNCHANGED <<now, cfgVars, store, nextConn, handedOut, fillI, fillDialled, wrappers,
                   procVars, queueGhost, shardVars, frameVars, udpVars>>

\* The fill pushes whatever the dialer returned, error or not.
FillStepPushAlways(dialOk) ==
    /\ fillI < capacity
    /\ fillI' = fillI + 1
    /\ fillDialled' = IF dialOk THEN fillDialled \cup {fillI + 1} ELSE fillDialled
    /\ store' = MRUPush(store, capacity, fillI + 1, now).store
    /\ UNCHANGED <<now, cfgVars, nextConn, closeCalls, handedOut, wrappers, tasks, procVars,
                   queueGhost, shardVars, frameVars, udpVars>>

\* One iteration of the initial fill goroutine of NewPersistentConnPool: dial,
\* and on success conns.Push(conn), whose result is not looked at.
FillStep(dialOk) ==
    /\ fillI < capacity
    /\ fillI' = fillI + 1
    /\ fillDialled' = IF dialOk THEN fillDialled \cup {fillI + 1} ELSE fillDialled
    /\ store' = IF dialOk
                THEN MRUPush(store, capacity, fillI + 1, now).store
                ELSE store
    /\ UNCHANGED <<now, cfgVars, nextConn, closeCalls, handedOut, wrappers, tasks, procVars,
                   queueGhost, shardVars, frameVars, udpVars>>

\* A failed acquisition answered with a response made up by the proxy.
AfterConnSynth(ok) ==
    IF api THEN "api" ELSE IF ok THEN "transact" ELSE "write"

\* A failed acquisition sent round the retry loop.
AfterConnRetry(ok) ==
    IF api THEN "api" ELSE IF ok THEN "transact" ELSE "acquire"

\* Where a process goes when its Conn() call returns.
AfterConn(ok) ==
    IF api THEN "api" ELSE IF ok THEN "transact" ELSE "failedAcquire"

\* Conn() returns the wrapper w to process p.
Return(p, w) ==
    /\ wrappers' = WithWrapper(w)
    /\ upstream' = [upstream EXCEPT ![p] = FreeSlot]
    /\ handedOut' = handedOut \cup {w.conn}
    /\ count' = [count EXCEPT ![p].acquired = @ + 1]
    /\ pc' = [pc EXCEPT ![p] = AfterConn(TRUE)]

\* PersistentConnPool.Conn(), first half: Pop, then return a fresh cached
\* connection, or schedule the close of a stale one and go on to dial.
ConnPop(p) ==
    /\ pc[p] = "acquire"
    /\ LET r == MRUPop(store)
           age == now - r.timestamp
           fresh == r.ok /\ IsFresh(staleTimeout, now, r.timestamp)
       IN
       /\ (r.ok /\ ~fresh) => CanSpawn
       /\ store' = r.store
       /\ IF fresh
          THEN /\ Return(p, NewPersistentConn(r.value, p, age, NoStale))
               /\ UNCHANGED <<tasks, stale>>
          ELSE /\ tasks' = IF r.ok
                           THEN tasks \cup {GoTask("StaleClose", Nil, r.value)}
                           ELSE tasks
               /\ stale' = [stale EXCEPT ![p] =
                               IF r.ok THEN [conn |-> r.value, age |-> age,
                                                 idle |-> now - r.at]
                               ELSE NoStale]
               /\ pc' = [pc EXCEPT ![p] = "dial"]
               /\ UNCHANGED <<wrappers, upstream, handedOut, count>>
    /\ UNCHANGED <<now, cfgVars, nextConn, closeCalls, fillI, fillDialled, retries, queueGhost, shardVars, frameVars, udpVars>>

\* PersistentConnPool.Conn(), second half: p.dialer() and its outcome.
ConnDial(p, dialOk) ==
    /\ pc[p] = "dial"
    /\ IF dialOk /\ nextConn < dialLimit
       THEN /\ nextConn' = nextConn + 1
            /\ Return(p, NewPersistentConn(FillConns + nextConn + 1, p, -1, stale[p]))
       ELSE /\ pc' = [pc EXCEPT ![p] = AfterConn(FALSE)]
            /\ count' = [count EXCEPT ![p] = Serve(@, ~api)]
            /\ UNCHANGED <<nextConn, wrappers, upstream, handedOut>>
    /\ stale' = [stale EXCEPT ![p] = NoStale]
    /\ UNCHANGED <<now, cfgVars, store, closeCalls, fillI, fillDialled, tasks, retries,
                   queueGhost, shardVars, frameVars, udpVars>>

\* -------------------------------------------------------- DNSProxyHandler
\* The default taken only below zero.
NormaliseNegative(r) == IF r < 0 THEN DefaultMaxRetries ELSE r

\* Handle: maxRetries := h.Opts.MaxUpstreamRetries, 16 when that is <= 0.
NormaliseRetries(r) == IF r <= 0 THEN DefaultMaxRetries ELSE r

\* The retry test off by one.
MayRetryAboveOne(r) == r > 1

\* proxyUpstream after a failed transaction: retry while retries > 0.
MayRetry(r) == r > 0

\* Close after every transaction, failed or not.
ReleaseOpClose(txnOk) == "Close"

\* Destroy after every transaction, failed or not.
ReleaseOpDestroy(txnOk) == "Destroy"

\* The release call proxyUpstream issues after a transaction: Destroy after a
\* failed one, Close after a successful one.
ReleaseOp(txnOk) == IF txnOk THEN "Close" ELSE "Destroy"

\* Handle, up to the call of proxyUpstream: clientRead and its outcome.
ClientRead(p, readOk) ==
    /\ pc[p] = "idle"
    /\ IF readOk
       THEN /\ pc' = [pc EXCEPT ![p] = "acquire"]
            /\ retries' = [retries EXCEPT ![p] = NormaliseRetries(maxUpstreamRetries)]
       ELSE /\ pc' = [pc EXCEPT ![p] = "failedRead"]
            /\ UNCHANGED retries
    /\ count' = [count EXCEPT ![p] = Serve([@ EXCEPT !.clientReads = @ + 1], ~readOk)]
    /\ UNCHANGED <<now, cfgVars, store, nextConn, closeCalls, handedOut, fillI, fillDialled,
                   wrappers, tasks, upstream, stale, queueGhost, shardVars, frameVars, udpVars>>

\* The wrapper record after the release call op has been issued on it.
Issue(w, op) ==
    [w EXCEPT !.closeIssued = IF op = "Close" THEN @ + 1 ELSE @,
              !.destroyIssued = IF op = "Destroy" THEN @ + 1 ELSE @,
              !.firstOp = IF @ = "none" THEN op ELSE @]

\* A failed transaction retried with its connection neither closed nor
\* destroyed.
TransactNoRelease(p, txnOk) ==
    /\ pc[p] = "transact"
    /\ pc' = [pc EXCEPT ![p] = IF txnOk THEN "write" ELSE "acquire"]
    /\ count' = [count EXCEPT ![p].attempts = @ + 1]
    /\ UNCHANGED <<now, cfgVars, store, nextConn, closeCalls, handedOut, fillI, fillDialled,
                   wrappers, tasks, retries, upstream, stale, queueGhost, shardVars,
                   frameVars, udpVars>>

\* proxyUpstream from upstreamTransact on: the transaction's outcome, the
\* release of the connection in a new goroutine, and the retry or the return.
Transact(p, txnOk) ==
    /\ pc[p] = "transact"
    /\ CanSpawn
    /\ LET i == upstream[p]
           op == ReleaseOp(txnOk)
       IN
       /\ tasks' = tasks \cup {GoTask(op, i, wrappers[i].conn)}
       /\ wrappers' = [wrappers EXCEPT ![i] =
              Issue([@ EXCEPT !.txn = IF txnOk THEN "ok" ELSE "fail"], op)]
       /\ upstream' = [upstream EXCEPT ![p] = Nil]
       /\ IF txnOk
          THEN /\ pc' = [pc EXCEPT ![p] = "write"]
               /\ count' = [count EXCEPT
                      ![p].attempts = @ + 1,
                      ![p].closes = IF op = "Close" THEN @ + 1 ELSE @,
                      ![p].destroys = IF op = "Destroy" THEN @ + 1 ELSE @]
               /\ UNCHANGED retries
          ELSE IF MayRetry(retries[p])
          THEN /\ count' = [count EXCEPT
                      ![p].attempts = @ + 1,
                      ![p].retryEmits = @ + 1,
                      ![p].closes = IF op = "Close" THEN @ + 1 ELSE @,
                      ![p].destroys = IF op = "Destroy" THEN @ + 1 ELSE @]
               /\ retries' = [retries EXCEPT ![p] = @ - 1]
               /\ pc' = [pc EXCEPT ![p] = "acquire"]
          ELSE /\ pc' = [pc EXCEPT ![p] = "failedUpstream"]
               /\ count' = [count EXCEPT ![p] = Serve(
                      [@ EXCEPT !.attempts = @ + 1,
                                !.closes = IF op = "Close" THEN @ + 1 ELSE @,
                                !.destroys = IF op = "Destroy" THEN @ + 1 ELSE @],
                      TRUE)]
               /\ UNCHANGED retries
    /\ UNCHANGED <<now, cfgVars, store, nextConn, closeCalls, handedOut, fillI, fillDialled,
                   stale, queueGhost, shardVars, frameVars, udpVars>>

\* A failed write to the client destroys the upstream connection the response
\* came over.
ClientWriteDestroy(p, writeOk) ==
    /\ pc[p] = "write"
    /\ pc' = [pc EXCEPT ![p] = IF writeOk THEN "done" ELSE "failedWrite"]
    /\ count' = [count EXCEPT ![p] = Serve([@ EXCEPT !.clientWrites = @ + 1], ~writeOk)]
    /\ wrappers' = [i \in 1..Len(wrappers) |->
                       IF ~writeOk /\ wrappers[i].owner = p /\ wrappers[i].txn = "ok"
                       THEN MarkDestroyed(Issue(wrappers[i], "Destroy"))
                       ELSE wrappers[i]]
    /\ UNCHANGED <<now, cfgVars, store, nextConn, closeCalls, handedOut, fillI, fillDialled,
                   tasks, retries, upstream, stale, queueGhost, shardVars,
                   frameVars, udpVars>>

\* A failed write to the client sends the request back to the upstream.
ClientWriteRetry(p, writeOk) ==
    /\ pc[p] = "write"
    /\ pc' = [pc EXCEPT ![p] = IF writeOk THEN "done" ELSE "acquire"]
    /\ count' = [count EXCEPT ![p].clientWrites = @ + 1]
    /\ UNCHANGED <<now, cfgVars, store, nextConn, closeCalls, handedOut, fillI, fillDialled,
                   wrappers, tasks, retries, upstream, stale, queueGhost, shardVars,
                   frameVars, udpVars>>

\* Handle after proxyUpstream: clientWrite and its outcome.
ClientWrite(p, writeOk) ==
    /\ pc[p] = "write"
    /\ pc' = [pc EXCEPT ![p] = IF writeOk THEN "done" ELSE "failedWrite"]
    /\ count' = [count EXCEPT ![p] = Serve([@ EXCEPT !.clientWrites = @ + 1], ~writeOk)]
    /\ UNCHANGED <<now, cfgVars, store, nextConn, closeCalls, handedOut, fillI, fillDialled,
                   wrappers, tasks, retries, upstream, stale, queueGhost, shardVars,
                   frameVars, udpVars>>

\* ------------------------------------------------ callers of the pool's API
\* A caller invokes PersistentConnPool.Conn().
APIConn(p) ==
    /\ pc[p] = "api"
    /\ Len(wrappers) + Cardinality({q \in Procs : pc[q] \in {"acquire", "dial"}})
           < MaxWrappers
    /\ pc' = [pc EXCEPT ![p] = "acquire"]
    /\ UNCHANGED <<now, cfgVars, store, nextConn, closeCalls, handedOut, fillI, fillDialled,
                   wrappers, tasks, retries, upstream, stale, count, queueGhost, shardVars, frameVars, udpVars>>

\* May a caller make one more release call on the wrapper in slot i?
MayCall(p, i) ==
    /\ pc[p] = "api"
    /\ i \in Live /\ wrappers[i].owner = p
    /\ wrappers[i].closeIssued + wrappers[i].destroyIssued < MaxCalls

\* A caller invokes Close() on a wrapper it was given.
APIClose(p, i) ==
    /\ MayCall(p, i)
    /\ RunCloser(i, Issue(wrappers[i], "Close"))
    /\ UNCHANGED <<now, cfgVars, nextConn, handedOut, fillI, fillDialled, tasks, procVars,
                   queueGhost, shardVars, frameVars, udpVars>>

\* A caller invokes Destroy() on a wrapper it was given.
APIDestroy(p, i) ==
    /\ MayCall(p, i)
    /\ RunCloser(i, MarkDestroyed(Issue(wrappers[i], "Destroy")))
    /\ UNCHANGED <<now, cfgVars, nextConn, handedOut, fillI, fillDialled, tasks, procVars,
                   queueGhost, shardVars, frameVars, udpVars>>

\* ------------------------------------------------------------ specifications
Background ==
    \/ Tick
    \/ \E ok \in BOOLEAN : FillStep(ok)
    \/ \E t \in tasks : RunStaleClose(t)

\* Concurrent requests served by DNSProxyHandler over one pool.
Init == InitWith(0..MaxCapacity, {0, StaleTicks}, 1..MaxRetriesCfg, FALSE, Procs,
                 MaxConns, MaxPending) /\ ShardedInit("none") /\ FrameInit("none") /\ NoUDP

Next ==
    \/ Background
    \/ \E t \in tasks : RunClose(t)
    \/ \E t \in tasks : RunDestroy(t)
    \/ \E p \in Procs, ok \in BOOLEAN : ClientRead(p, ok)
    \/ \E p \in Procs : ConnPop(p)
    \/ \E p \in Procs, ok \in BOOLEAN : ConnDial(p, ok)
    \/ \E p \in Procs, ok \in BOOLEAN : Transact(p, ok)
    \/ \E p \in Procs, ok \in BOOLEAN : ClientWrite(p, ok)

Spec == Init /\ [][Next]_vars

\* One caller using the pool and its wrappers directly, in any order.
InitAPI == InitWith(0..MaxCapacity + 1, {0, StaleTicks}, {0}, TRUE, {1}, MaxConns,
                    MaxPending) /\ ShardedInit("none") /\ FrameInit("none") /\ NoUDP

NextAPI ==
    \/ Background
    \/ \E p \in Procs : APIConn(p)
    \/ \E p \in Procs : ConnPop(p)
    \/ \E p \in Procs, ok \in BOOLEAN : ConnDial(p, ok)
    \/ \E p \in Procs, i \in 1..Len(wrappers) : APIClose(p, i)
    \/ \E p \in Procs, i \in 1..Len(wrappers) : APIDestroy(p, i)

SpecAPI == InitAPI /\ [][NextAPI]_vars

\* One request with MaxUpstreamRetries left at or below zero, over a dialer
\* that can open a connection for every transaction of the default budget.
InitDefault == InitWith({1}, {StaleTicks}, {-1, 0}, FALSE, {1}, DefaultDials,
                        DefaultPending) /\ ShardedInit("none") /\ FrameInit("none") /\ NoUDP

SpecDefault == InitDefault /\ [][Next]_vars

\* The queue once the initial fill has pushed n connections at clock 0.
RECURSIVE FilledStore(_, _)
FilledStore(cap, n) ==
    IF n = 0 THEN <<>> ELSE MRUPush(FilledStore(cap, n - 1), cap, n, 0).store

\* One request over a pool whose initial fill has run to its end with every
\* dial succeeding, so that the queue holds capacity connections.
InitRefill ==
    /\ now = 0
    /\ capacity \in 0..RefillCapacity
    /\ staleTimeout \in {0, StaleTicks}
    /\ maxUpstreamRetries \in 1..MaxRetriesCfg
    /\ api = FALSE
    /\ dialLimit = MaxConns
    /\ maxPending = MaxPending
    /\ store = FilledStore(capacity, capacity)
    /\ nextConn = 0
    /\ closeCalls = [c \in AllConns |-> 0]
    /\ handedOut = {}
    /\ fillI = capacity
    /\ fillDialled = 1..capacity
    /\ wrappers = <<>>
    /\ tasks = {}
    /\ pc = [p \in Procs |-> IF p = 1 THEN "idle" ELSE "off"]
    /\ retries = [p \in Procs |-> 0]
    /\ upstream = [p \in Procs |-> Nil]
    /\ stale = [p \in Procs |-> NoStale]
    /\ count = [p \in Procs |-> NoCount]
    /\ lastPop = NoPop
    /\ order = <<>>
    /\ lastPush = NoPush
    /\ ShardedInit("none") /\ FrameInit("none") /\ NoUDP

\* The steps of the one request.
RequestStep ==
    \/ \E ok \in BOOLEAN : ClientRead(1, ok)
    \/ ConnPop(1)
    \/ \E ok \in BOOLEAN : ConnDial(1, ok)
    \/ \E ok \in BOOLEAN : Transact(1, ok)
    \/ \E ok \in BOOLEAN : ClientWrite(1, ok)

NextRefill ==
    \/ Tick
    \/ \E t \in tasks : RunStaleClose(t)
    \/ \E t \in tasks : RunClose(t)
    \/ \E t \in tasks : RunDestroy(t)
    \/ RequestStep

\* A goroutine started with "go" runs in the end, and the calls the request
\* makes return.
FairRefill ==
    /\ WF_vars(\E t \in tasks : RunStaleClose(t))
    /\ WF_vars(\E t \in tasks : RunClose(t))
    /\ WF_vars(\E t \in tasks : RunDestroy(t))
    /\ WF_vars(RequestStep)

SpecRefill == InitRefill /\ [][NextRefill]_vars /\ FairRefill

\* ------------------------------------------------------------------ claims
\* ------------------------------------------------------ sharded clients
poolVars == <<now, cfgVars, store, nextConn, closeCalls, handedOut, fillI, fillDialled, wrappers,
              tasks, procVars, queueGhost, frameVars, udpVars>>

\* No pool and no request: the sharded client is looked at on its own.
PoolIdle == InitWith({0}, {0}, {0}, FALSE, {}, 0, 0)

\* Eligible also at the very end of the window.
IsEligibleAtEnd(last, expiry, t) == last = ZeroTime \/ t - last >= expiry

\* selectAvailable's test on one candidate, read at wall time t:
\* lastError.IsZero() || time.Since(lastError) > expiry.
IsEligible(last, expiry, t) == last = ZeroTime \/ t - last > expiry

\* Always start over at 100 ms.
NextExpiryFlat(last, expiry, t) == InitialExpiry

\* Doubling however long ago the last failure was.
NextExpiryNoReset(last, expiry, t) ==
    IF last = ZeroTime THEN InitialExpiry ELSE expiry * 2

\* The errorExpiry Conn() stores for a client that failed at wall time t.
NextExpiry(last, expiry, t) ==
    IF last = ZeroTime \/ t - last > FailedClientExpiry
    THEN InitialExpiry
    ELSE expiry * 2

\* The first client in list order with the fewest successful connections in
\* the counters st.
FewestSuccessful(st) ==
    CHOOSE c \in Clients :
        /\ \A d \in Clients : st[c].successful <= st[d].successful
        /\ \A d \in 1..(c - 1) : st[d].successful > st[c].successful

\* The candidate also replaces a client with as many connections as its own.
HistBetterOrEqual(candidate, client) == candidate <= client

\* The comparison the wrong way round: the client with the most wins.
HistMore(candidate, client) == candidate > client

\* HistoricalConnections: the candidate replaces the client chosen so far when
\* candidate.Stats().SuccessfulConnections < client.Stats().SuccessfulConnections.
HistBetter(candidate, client) == candidate < client

\* The calls a behaviour may start: the availability policy's state grows with
\* every failure, the other policies keep a cursor or nothing.
CallLimit == IF policy = "Availability" THEN MaxShardCalls ELSE MaxPolicyCalls

RECURSIVE SumOf(_, _)
SumOf(f, S) ==
    IF S = {} THEN 0
    ELSE LET c == CHOOSE x \in S : TRUE IN f[c] + SumOf(f, S \ {c})

\* Only the successful connections are added up.
aggregateSuccessfulOnly(cs) ==
    [successful |-> SumOf([c \in cs |-> stats[c].successful], cs), failed |-> 0]

\* aggregateClientsStats(clients): the sums of the clients' Stats().
aggregateClientsStats(cs) ==
    [successful |-> SumOf([c \in cs |-> stats[c].successful], cs),
     failed |-> SumOf([c \in cs |-> stats[c].failed], cs)]

\* Sharded Conn() calls that have started and not returned.
InProgress == {p \in Callers : call[p].pc \notin {"idle", "done", "error"}}

\* The wall clock moves by d milliseconds.
Advance(d) ==
    /\ policy # "none"
    /\ advances < MaxAdvances
    /\ advances' = advances + 1
    /\ wall' = wall + d
    /\ UNCHANGED <<poolVars, policy, lastError, errorExpiry, rrIdx, stats, call,
                   completed, failTimes, overlapped>>

\* Caller p enters Conn() of the sharded client. RoundRobin reads c.rrIdx,
\* Random draws an index, HistoricalConnections takes the first client as its
\* choice so far (client == nil), Failover starts at the first client,
\* Availability enters selectAvailable.
Start(p) ==
    /\ policy # "none"
    /\ call[p].pc = "idle"
    /\ completed + Cardinality(InProgress) < CallLimit
    /\ overlapped' = (overlapped \/ InProgress # {})
    /\ \E r \in Clients :
          call' = [call EXCEPT ![p] =
              CASE policy = "Availability" ->
                     [NoCall EXCEPT !.pc = "scan", !.scan = 1]
                [] policy = "HistoricalConnections" ->
                     [NoCall EXCEPT
                        !.pc = IF NumClients > 1 THEN "hist" ELSE "call",
                        !.target = 1,
                        !.scan = 2,
                        !.minima = {FewestSuccessful(stats)},
                        !.steady = TRUE]
                [] OTHER ->
                     [NoCall EXCEPT
                        !.pc = "call",
                        !.target = CASE policy = "RoundRobin" -> rrIdx + 1
                                     [] policy = "Random" -> r
                                     [] OTHER -> 1]]
    /\ UNCHANGED <<poolVars, policy, wall, advances, lastError, errorExpiry, rrIdx,
                   stats, completed, failTimes>>

\* HistoricalConnections, the loop's comparison, left operand: the candidate's
\* Stats() are read.
HistRead(p) ==
    /\ call[p].pc = "hist"
    /\ call' = [call EXCEPT ![p].pc = "histCmp",
                            ![p].tmp = stats[call[p].scan].successful]
    /\ UNCHANGED <<poolVars, policy, wall, advances, lastError, errorExpiry, rrIdx,
                   stats, completed, failTimes, overlapped>>

\* ... right operand: the Stats() of the client chosen so far are read, the
\* candidate replaces it when it has fewer, and the loop goes on or ends.
HistCompare(p) ==
    /\ call[p].pc = "histCmp"
    /\ LET c == call[p] IN
       call' = [call EXCEPT
           ![p].target = IF HistBetter(c.tmp, stats[c.target].successful)
                         THEN c.scan ELSE c.target,
           ![p].scan = c.scan + 1,
           ![p].pc = IF c.scan + 1 > NumClients THEN "call" ELSE "hist"]
    /\ UNCHANGED <<poolVars, policy, wall, advances, lastError, errorExpiry, rrIdx,
                   stats, completed, failTimes, overlapped>>

\* selectAvailable looks at the next candidate: its lastError and errorExpiry
\* are read under the read lock and tested against the clock.
ScanStep(p) ==
    /\ call[p].pc = "scan"
    /\ call[p].scan <= NumClients
    /\ LET c == call[p].scan IN
       call' = [call EXCEPT
           ![p].scan = c + 1,
           ![p].eligible = IF IsEligible(lastError[c], errorExpiry[c], wall)
                           THEN @ \cup {c} ELSE @]
    /\ UNCHANGED <<poolVars, policy, wall, advances, lastError, errorExpiry, rrIdx,
                   stats, completed, failTimes, overlapped>>

\* A draw among all the clients.
RandomPickAny(e) == Clients

\* The values eligibleClients[rand.Intn(len(eligibleClients))] can take.
RandomPick(e) == e

\* selectAvailable returns: the "no live clients" error, which Conn() hands
\* on, or one of the eligible clients drawn at random.
SelectEnd(p) ==
    /\ call[p].pc = "scan"
    /\ call[p].scan > NumClients
    /\ IF call[p].eligible = {}
       THEN /\ call' = [call EXCEPT ![p].pc = "error"]
            /\ completed' = completed + 1
       ELSE /\ \E c \in RandomPick(call[p].eligible) :
                  call' = [call EXCEPT ![p].pc = "call", ![p].target = c]
            /\ UNCHANGED completed
    /\ UNCHANGED <<poolVars, policy, wall, advances, lastError, errorExpiry, rrIdx,
                   stats, failTimes, overlapped>>

\* The child client's acquire: it counts the call once, as successful or as
\* failed, in the totals its Stats() reports.
CountConn(st, ok) ==
    [successful |-> IF ok THEN st.successful + 1 ELSE st.successful,
     failed |-> IF ok THEN st.failed ELSE st.failed + 1]

\* Failover that gives up after the first client.
AfterChildNoFailover(c, ok) ==
    CASE policy = "RoundRobin" -> "rrLoad"
      [] policy = "Availability" -> IF ok THEN "done" ELSE "failed"
      [] OTHER -> IF ok THEN "done" ELSE "error"

\* What the HistoricalConnections call of caller q, which has not delegated
\* yet, has seen of the counters once they have become st: the clients that
\* were the first with the fewest connections at some moment since the call
\* began, and whether the counts stayed as they were while it compared them.
Observe(q, st) ==
    IF policy = "HistoricalConnections" /\ call[q].pc \in {"hist", "histCmp", "call"}
    THEN [call[q] EXCEPT
            !.minima = @ \cup {FewestSuccessful(st)},
            !.steady = @ /\ (call[q].pc = "call"
                             \/ \A c \in Clients :
                                   st[c].successful = stats[c].successful)]
    ELSE call[q]

\* Where a call stands after its child's Conn() returned ok or an error.
AfterChild(c, ok) ==
    CASE policy = "RoundRobin" -> "rrLoad"
      [] policy = "Availability" -> IF ok THEN "done" ELSE "failed"
      [] policy = "Failover" ->
            IF ok THEN "done" ELSE IF c.target < NumClients THEN "call" ELSE "error"
      [] OTHER -> IF ok THEN "done" ELSE "error"

\* clients[target].Conn() is called and returns; the child counts the call in
\* its Stats as successful or failed.
ChildConn(p, ok) ==
    /\ call[p].pc = "call"
    /\ call[p].delegations < MaxDelegations
    /\ LET c == call[p].target
           next == AfterChild(call[p], ok)
       IN
       /\ stats' = [stats EXCEPT ![c] = CountConn(@, ok)]
       /\ call' = [q \in Callers |->
              IF q # p THEN Observe(q, [stats EXCEPT ![c] = CountConn(@, ok)])
              ELSE [call[p] EXCEPT
                      !.pc = next,
                      !.ok = ok,
                      !.delegations = @ + 1,
                      !.tried = Append(@, [client |-> c, ok |-> ok]),
                      !.target = IF policy = "Failover" /\ next = "call"
                                 THEN @ + 1 ELSE @]]
       /\ completed' = IF next \in {"done", "error"} THEN completed + 1 ELSE completed
    /\ UNCHANGED <<poolVars, policy, wall, advances, lastError, errorExpiry, rrIdx,
                   failTimes, overlapped>>

\* A failure of one client recorded against every client.
RecordFailureAll(p) ==
    /\ call[p].pc = "failed"
    /\ errorExpiry' = [c \in Clients |-> NextExpiry(lastError[c], errorExpiry[c], wall)]
    /\ lastError' = [c \in Clients |-> wall]
    /\ failTimes' = [failTimes EXCEPT ![call[p].target] = Append(@, wall)]
    /\ call' = [call EXCEPT ![p].pc = "scan", ![p].scan = 1, ![p].eligible = {}]
    /\ UNCHANGED <<poolVars, policy, wall, advances, rrIdx, stats, completed,
                   overlapped>>

\* AvailabilityShardedClient.Conn() after a failed child: under the write lock
\* the client's errorExpiry and lastError are updated, then Conn() calls itself.
RecordFailure(p) ==
    /\ call[p].pc = "failed"
    /\ LET c == call[p].target IN
       /\ errorExpiry' = [errorExpiry EXCEPT
              ![c] = NextExpiry(lastError[c], errorExpiry[c], wall)]
       /\ lastError' = [lastError EXCEPT ![c] = wall]
       /\ failTimes' = [failTimes EXCEPT ![c] = Append(@, wall)]
    /\ call' = [call EXCEPT ![p].pc = "scan", ![p].scan = 1, ![p].eligible = {}]
    /\ UNCHANGED <<poolVars, policy, wall, advances, rrIdx, stats, completed,
                   overlapped>>

\* RoundRobinShardedClient.Conn(), the deferred function: c.rrIdx is read ...
RRLoad(p) ==
    /\ call[p].pc = "rrLoad"
    /\ call' = [call EXCEPT ![p].pc = "rrStore", ![p].tmp = rrIdx]
    /\ UNCHANGED <<poolVars, policy, wall, advances, lastError, errorExpiry, rrIdx,
                   stats, completed, failTimes, overlapped>>

\* The cursor incremented without the modulo.
RRStoreNoWrap(p) ==
    /\ call[p].pc = "rrStore"
    /\ rrIdx' = call[p].tmp + 1
    /\ call' = [call EXCEPT ![p].pc = IF call[p].ok THEN "done" ELSE "error"]
    /\ completed' = completed + 1
    /\ UNCHANGED <<poolVars, policy, wall, advances, lastError, errorExpiry, stats,
                   failTimes, overlapped>>

\* The cursor moves on only after a successful child call.
RRStoreOnSuccess(p) ==
    /\ call[p].pc = "rrStore"
    /\ rrIdx' = IF call[p].ok THEN (call[p].tmp + 1) % NumClients ELSE rrIdx
    /\ call' = [call EXCEPT ![p].pc = IF call[p].ok THEN "done" ELSE "error"]
    /\ completed' = completed + 1
    /\ UNCHANGED <<poolVars, policy, wall, advances, lastError, errorExpiry, stats,
                   failTimes, overlapped>>

\* ... and (c.rrIdx + 1) % len(c.clients) is stored; Conn() returns.
RRStore(p) ==
    /\ call[p].pc = "rrStore"
    /\ rrIdx' = (call[p].tmp + 1) % NumClients
    /\ call' = [call EXCEPT ![p].pc = IF call[p].ok THEN "done" ELSE "error"]
    /\ completed' = completed + 1
    /\ UNCHANGED <<poolVars, policy, wall, advances, lastError, errorExpiry, stats,
                   failTimes, overlapped>>

\* The caller is ready for its next Conn() call.
Restart(p) ==
    /\ call[p].pc \in {"done", "error"}
    /\ completed + Cardinality(InProgress) < CallLimit
    /\ call' = [call EXCEPT ![p] = NoCall]
    /\ UNCHANGED <<poolVars, policy, wall, advances, lastError, errorExpiry, rrIdx,
                   stats, completed, failTimes, overlapped>>

InitShard ==
    PoolIdle /\ FrameInit("none") /\ NoUDP /\ \E pol \in Policies : ShardedInit(pol)

NextShard ==
    \/ \E d \in {ShortStep, LongStep} : Advance(d)
    \/ \E p \in Callers :
          \/ Start(p)
          \/ HistRead(p)
          \/ HistCompare(p)
          \/ ScanStep(p)
          \/ SelectEnd(p)
          \/ \E ok \in BOOLEAN : ChildConn(p, ok)
          \/ RecordFailure(p)
          \/ RRLoad(p)
          \/ RRStore(p)
          \/ Restart(p)

SpecShard == InitShard /\ [][NextShard]_vars

\* The policies without backoff state, over more calls.
InitPolicy ==
    /\ PoolIdle /\ FrameInit("none") /\ NoUDP
    /\ \E pol \in Policies \ {"Availability"} : ShardedInit(pol)

NextPolicy ==
    \E p \in Callers :
        \/ Start(p)
        \/ HistRead(p)
        \/ HistCompare(p)
        \/ \E ok \in BOOLEAN : ChildConn(p, ok)
        \/ RRLoad(p)
        \/ RRStore(p)
        \/ Restart(p)

SpecPolicy == InitPolicy /\ [][NextPolicy]_vars

\* --------------------------------------------------- the request's bytes
engineVars == <<now, cfgVars, store, nextConn, closeCalls, handedOut, fillI, fillDialled, wrappers,
                tasks, procVars, queueGhost, shardVars, udpVars>>

Transports == {"UDP", "TCP"}

Min(a, b) == IF a < b THEN a ELSE b

\* n bytes b.
Rep(b, n) == [i \in 1..n |-> b]

\* The messages a client or an upstream sends: every short one over a few byte
\* values, and long ones around the sizes where the length needs two octets
\* and where the read buffer ends.
Messages ==
    UNION {[1..n -> {0, 1, 255}] : n \in 0..MaxMsgLen}
        \cup {Rep(FillByte, n) : n \in {255, 256, ReadBufferSize, ReadBufferSize + 1}}

\* The low octet first.
PutUint16LittleEndian(v) == <<v % 256, (v \div 256) % 256>>

\* binary.BigEndian.PutUint16(b, v): the high octet, then the low octet.
PutUint16(v) == <<(v \div 256) % 256, v % 256>>

\* uint16(n): the conversion truncates to 16 bits.
ToUint16(n) == n % 65536

\* binary.BigEndian.Uint16(b).
Uint16(b) == b[1] * 256 + b[2]

\* clientRead: one Read into a buffer of 1024 bytes, trimmed to what was read.
clientRead(m) == SubSeq(m, 1, Min(Len(m), ReadBufferSize))

\* Handle: over UDP the two-octet size header is put before the request.
FrameRequest(tr, req) ==
    IF tr = "UDP" THEN PutUint16(ToUint16(Len(req))) \o req ELSE req

\* The header is cut off whatever the transport.
UnframeAlways(tr, resp) == SubSeq(resp, 3, Len(resp))

\* Handle: over UDP the response's size header is left out: upstreamResp[2:].
UnframeResponse(tr, resp) ==
    IF tr = "UDP" THEN SubSeq(resp, 3, Len(resp)) ELSE resp

\* What a DNS-over-TCP upstream sends for the payload m: its length in two
\* octets, then the payload.
UpstreamAnswer(m) == <<Len(m) \div 256, Len(m) % 256>> \o m

\* upstreamTransact's reads from the bytes the upstream sent: two octets of
\* header, then exactly as many bytes as the header says; a short read is an
\* error. It returns append(upstreamHeader, upstreamResp...).
upstreamRead(stream) ==
    IF Len(stream) < 2
    THEN [ok |-> FALSE, resp |-> <<>>]
    ELSE LET upstreamHeader == SubSeq(stream, 1, 2)
             respSize == Uint16(upstreamHeader)
         IN
         IF Len(stream) - 2 < respSize
         THEN [ok |-> FALSE, resp |-> <<>>]
         ELSE [ok |-> TRUE,
               resp |-> upstreamHeader \o SubSeq(stream, 3, 2 + respSize)]

\* Handle reads the client's request and shapes it for the upstream.
FrameClientRead(m, readOk) ==
    /\ transport # "none"
    /\ fpc = "idle"
    /\ clientMsg' = m
    /\ IF readOk
       THEN /\ clientReq' = FrameRequest(transport, clientRead(m))
            /\ fpc' = "transact"
       ELSE /\ fpc' = "failedRead"
            /\ UNCHANGED clientReq
    /\ UNCHANGED <<engineVars, transport, wire, answer, upstreamResp, clientOut>>

\* upstreamTransact: clientReq is written to the upstream, which answers with
\* the payload m, whole or cut short by one byte.
FrameTransact(m, whole) ==
    /\ fpc = "transact"
    /\ wire' = clientReq
    /\ answer' = m
    /\ LET sent == UpstreamAnswer(m)
           r == upstreamRead(IF whole THEN sent ELSE SubSeq(sent, 1, Len(sent) - 1))
       IN
       /\ upstreamResp' = r.resp
       /\ fpc' = IF r.ok THEN "write" ELSE "failedUpstream"
    /\ UNCHANGED <<engineVars, transport, clientMsg, clientReq, clientOut>>

\* Handle shapes the response for the client and clientWrite writes it.
FrameClientWrite(writeOk) ==
    /\ fpc = "write"
    /\ IF writeOk
       THEN /\ clientOut' = UnframeResponse(transport, upstreamResp)
            /\ fpc' = "done"
       ELSE /\ fpc' = "failedWrite"
            /\ UNCHANGED clientOut
    /\ UNCHANGED <<engineVars, transport, clientMsg, clientReq, wire, answer,
                   upstreamResp>>

InitFrame ==
    PoolIdle /\ ShardedInit("none") /\ NoUDP /\ \E tr \in Transports : FrameInit(tr)

NextFrame ==
    \/ \E m \in Messages, readOk \in BOOLEAN : FrameClientRead(m, readOk)
    \/ \E m \in Messages, whole \in BOOLEAN : FrameTransact(m, whole)
    \/ \E writeOk \in BOOLEAN : FrameClientWrite(writeOk)

SpecFrame == InitFrame /\ [][NextFrame]_vars

\* ------------------------------------------------- UDPConn and UDPServer
listenVars == <<now, cfgVars, store, nextConn, closeCalls, handedOut, fillI, fillDialled, wrappers,
                tasks, procVars, queueGhost, shardVars, frameVars, listener, accepted>>

\* Read that reads from the socket whether or not a peer is recorded.
UDPConnReadRebind(c, readTimeout, deadlineOk, recvOk, from) ==
    IF readTimeout > 0 /\ ~deadlineOk
    THEN [conn |-> c, err |-> "deadline", socketRead |-> FALSE]
    ELSE [conn |-> [c EXCEPT !.remote = IF recvOk THEN from ELSE Nil],
          err |-> IF recvOk THEN "nil" ELSE "read", socketRead |-> TRUE]

\* UDPConn.Read(buf): the error when a peer is recorded; the read deadline
\* when a timeout is configured; then n, c.remote, err = c.conn.ReadFrom(buf),
\* where the socket returns the sender's address with a datagram and a nil
\* address with an error.
UDPConnRead(c, readTimeout, deadlineOk, recvOk, from) ==
    IF c.remote # Nil
    THEN [conn |-> c, err |-> "already associated", socketRead |-> FALSE]
    ELSE IF readTimeout > 0 /\ ~deadlineOk
    THEN [conn |-> c, err |-> "deadline", socketRead |-> FALSE]
    ELSE [conn |-> [c EXCEPT !.remote = IF recvOk THEN from ELSE Nil],
          err |-> IF recvOk THEN "nil" ELSE "read", socketRead |-> TRUE]

\* UDPConn.Write(buf): the error when no peer is recorded; the write deadline
\* when a timeout is configured; then c.conn.WriteTo(buf, c.remote). to is the
\* address WriteTo was called with, nil when it was not called.
UDPConnWrite(c, writeTimeout, deadlineOk, sendOk) ==
    IF c.remote = Nil
    THEN [err |-> "no remote associated", to |-> Nil]
    ELSE IF writeTimeout > 0 /\ ~deadlineOk
    THEN [err |-> "deadline", to |-> Nil]
    ELSE [err |-> IF sendOk THEN "nil" ELSE "write", to |-> c.remote]

\* The socket after a Read that did or did not reach ReadFrom.
AfterRead(sock, r) ==
    [sock EXCEPT !.reads = IF r.socketRead THEN @ + 1 ELSE @, !.calls = @ + 1]

\* The socket after a Write that did or did not reach WriteTo.
AfterWrite(sock, r) ==
    [sock EXCEPT !.sent = IF r.to # Nil THEN Append(@, r.to) ELSE @]

\* A caller invokes Read on the UDPConn.
UDPRead(deadlineOk, recvOk, from) ==
    /\ udpOpts.mode = "api"
    /\ socket.calls < MaxUDPCalls
    /\ LET c == workers[1].conn
           r == UDPConnRead(c, udpOpts.ReadTimeout, deadlineOk, recvOk, from)
       IN
       /\ workers' = [workers EXCEPT ![1].conn = r.conn]
       /\ socket' = AfterRead(socket, r)
       /\ lastIO' = [op |-> "Read", err |-> r.err, before |-> c.remote,
                     after |-> r.conn.remote, socketRead |-> r.socketRead,
                     from |-> from, to |-> Nil]
    /\ UNCHANGED <<listenVars, udpOpts>>

\* A caller invokes Write on the UDPConn.
UDPWrite(deadlineOk, sendOk) ==
    /\ udpOpts.mode = "api"
    /\ socket.calls < MaxUDPCalls
    /\ LET c == workers[1].conn
           r == UDPConnWrite(c, udpOpts.WriteTimeout, deadlineOk, sendOk)
       IN
       /\ socket' = [AfterWrite(socket, r) EXCEPT !.calls = @ + 1]
       /\ lastIO' = [op |-> "Write", err |-> r.err, before |-> c.remote,
                     after |-> c.remote, socketRead |-> FALSE, from |-> Nil,
                     to |-> r.to]
    /\ UNCHANGED <<listenVars, udpOpts, workers>>

InitUDPConn ==
    /\ PoolIdle /\ ShardedInit("none") /\ FrameInit("none")
    /\ UDPInit("api", {0}, {0, 1})

NextUDPConn ==
    \/ \E deadlineOk \in BOOLEAN, recvOk \in BOOLEAN, from \in Peers :
          UDPRead(deadlineOk, recvOk, from)
    \/ \E deadlineOk \in BOOLEAN, sendOk \in BOOLEAN : UDPWrite(deadlineOk, sendOk)

SpecUDPConn == InitUDPConn /\ [][NextUDPConn]_vars

\* The default taken only below zero.
NormaliseWorkersNegative(n) == IF n < 0 THEN DefaultMaxConcurrent ELSE n

\* NewUDPServer: MaxConcurrentConnections becomes 16 when it is <= 0.
NormaliseWorkers(n) == IF n <= 0 THEN DefaultMaxConcurrent ELSE n

\* The worker keeps its UDPConn for the next request.
NextIterationSameConn(wk, err) ==
    [pc |-> "read", conn |-> wk.conn,
     errors |-> IF err THEN wk.errors + 1 ELSE wk.errors]

\* The worker's loop once Handle has returned: handler.ConsumeError(ctx, err)
\* when err != nil, then the next iteration makes a UDPConn and calls Handle,
\* which waits in clientRead.
NextIteration(wk, err) ==
    [pc |-> "read", conn |-> NewUDPConn,
     errors |-> IF err THEN wk.errors + 1 ELSE wk.errors]

\* The same for the counts kept with the socket: the UDPConn values made, the
\* errors Handle returned and the ConsumeError calls.
Served(sock, err) ==
    [sock EXCEPT !.made = @ + 1,
                 !.failed = IF err THEN @ + 1 ELSE @,
                 !.consumed = IF err THEN @ + 1 ELSE @]

\* ListenAndServe, one iteration of the for loop: a worker goroutine is
\* started; it makes its first UDPConn and calls Handle.
Spawn ==
    /\ udpOpts.mode = "serve"
    /\ Len(workers) < NormaliseWorkers(udpOpts.MaxConcurrentConnections)
    /\ workers' = Append(workers, [pc |-> "read", conn |-> NewUDPConn, errors |-> 0])
    /\ socket' = [socket EXCEPT !.made = @ + 1]
    /\ UNCHANGED <<listenVars, udpOpts, lastIO>>

\* Handle in worker w: clientRead returns, with a datagram or with an error.
WorkerRead(w, deadlineOk, recvOk, from) ==
    /\ udpOpts.mode = "serve"
    /\ workers[w].pc = "read"
    /\ w <= MaxBusy
    /\ socket.calls < MaxReads
    /\ LET r == UDPConnRead(workers[w].conn, udpOpts.ReadTimeout, deadlineOk, recvOk,
                            from)
       IN
       IF r.err = "nil"
       THEN /\ workers' = [workers EXCEPT ![w].pc = "upstream", ![w].conn = r.conn]
            /\ socket' = AfterRead(socket, r)
       ELSE /\ workers' = [workers EXCEPT ![w] = NextIteration(@, TRUE)]
            /\ socket' = Served(AfterRead(socket, r), TRUE)
    /\ UNCHANGED <<listenVars, udpOpts, lastIO>>

\* Handle in worker w: proxyUpstream returns a response or an error.
WorkerUpstream(w, ok) ==
    /\ udpOpts.mode = "serve"
    /\ workers[w].pc = "upstream"
    /\ IF ok
       THEN /\ workers' = [workers EXCEPT ![w].pc = "write"]
            /\ UNCHANGED socket
       ELSE /\ workers' = [workers EXCEPT ![w] = NextIteration(@, TRUE)]
            /\ socket' = Served(socket, TRUE)
    /\ UNCHANGED <<listenVars, udpOpts, lastIO>>

\* Handle in worker w: clientWrite returns and Handle with it.
WorkerWrite(w, deadlineOk, sendOk) ==
    /\ udpOpts.mode = "serve"
    /\ workers[w].pc = "write"
    /\ LET r == UDPConnWrite(workers[w].conn, udpOpts.WriteTimeout, deadlineOk, sendOk)
       IN
       /\ workers' = [workers EXCEPT
              ![w] = NextIteration(@, r.err # "nil")]
       /\ socket' = Served(AfterWrite(socket, r), r.err # "nil")
    /\ UNCHANGED <<listenVars, udpOpts, lastIO>>

InitUDP ==
    /\ PoolIdle /\ ShardedInit("none") /\ FrameInit("none")
    /\ UDPInit("serve", -1..MaxWorkersCfg, {0, 1})

NextUDP ==
    \/ Spawn
    \/ \E w \in 1..Len(workers) :
          \/ \E deadlineOk \in BOOLEAN, recvOk \in BOOLEAN, from \in Peers :
                WorkerRead(w, deadlineOk, recvOk, from)
          \/ \E ok \in BOOLEAN : WorkerUpstream(w, ok)
          \/ \E deadlineOk \in BOOLEAN, sendOk \in BOOLEAN :
                WorkerWrite(w, deadlineOk, sendOk)

SpecUDP == InitUDP /\ [][NextUDP]_vars

\* ------------------------------------------------------------- TCPServer
notTCPVars == <<now, cfgVars, store, nextConn, closeCalls, handedOut, fillI, fillDialled,
                wrappers, tasks, procVars, queueGhost, shardVars, frameVars, udpOpts,
                workers, socket, lastIO>>

\* The accept loop ended by an Accept error.
TCPAcceptStop(ok) ==
    /\ listener.looping
    /\ listener.accepts < MaxAccepts
    /\ IF ok
       THEN /\ listener' = [listener EXCEPT !.accepts = @ + 1, !.opens = @ + 1]
            /\ accepted' = Append(accepted, [pc |-> "handle", failed |-> FALSE,
                                             consumed |-> 0, closes |-> 0])
       ELSE /\ listener' = [listener EXCEPT !.accepts = @ + 1,
                                            !.connectionErrors = @ + 1,
                                            !.consumed = @ + 1,
                                            !.looping = FALSE]
            /\ UNCHANGED accepted
    /\ UNCHANGED notTCPVars

\* TCPServer.ListenAndServe, one iteration of the accept loop: ln.Accept()
\* returns. An error is reported with EmitConnectionError and ConsumeError and
\* the loop continues; a connection is wrapped by NewTCPConn, reported with
\* EmitConnectionOpen and given to a new goroutine, which calls Handle.
TCPAccept(ok) ==
    /\ listener.looping
    /\ listener.accepts < MaxAccepts
    /\ IF ok
       THEN /\ listener' = [listener EXCEPT !.accepts = @ + 1, !.opens = @ + 1]
            /\ accepted' = Append(accepted, [pc |-> "handle", failed |-> FALSE,
                                             consumed |-> 0, closes |-> 0])
       ELSE /\ listener' = [listener EXCEPT !.accepts = @ + 1,
                                            !.connectionErrors = @ + 1,
                                            !.consumed = @ + 1]
            /\ UNCHANGED accepted
    /\ UNCHANGED notTCPVars

\* The goroutine of connection k: handler.Handle returns, and its error, if
\* any, is passed to handler.ConsumeError; the deferred function is left to
\* run.
TCPHandle(k, ok) ==
    /\ k \in 1..Len(accepted)
    /\ accepted[k].pc = "handle"
    /\ accepted' = [accepted EXCEPT ![k].pc = "deferred",
                                    ![k].failed = ~ok,
                                    ![k].consumed = IF ok THEN @ ELSE @ + 1]
    /\ listener' = [listener EXCEPT !.consumed = IF ok THEN @ ELSE @ + 1]
    /\ UNCHANGED notTCPVars

\* The deferred function skipped after a handler error.
TCPDeferredOnSuccess(k) ==
    /\ k \in 1..Len(accepted)
    /\ accepted[k].pc = "deferred"
    /\ accepted' = [accepted EXCEPT ![k].pc = "exit",
                                    ![k].closes = IF accepted[k].failed THEN @ ELSE @ + 1]
    /\ listener' = [listener EXCEPT
                       !.closeEmits = IF accepted[k].failed THEN @ ELSE @ + 1]
    /\ UNCHANGED notTCPVars

\* The goroutine of connection k, its deferred function: EmitConnectionClose,
\* then tcpConn.Close(); the goroutine ends.
TCPDeferred(k) ==
    /\ k \in 1..Len(accepted)
    /\ accepted[k].pc = "deferred"
    /\ accepted' = [accepted EXCEPT ![k].pc = "exit", ![k].closes = @ + 1]
    /\ listener' = [listener EXCEPT !.closeEmits = @ + 1]
    /\ UNCHANGED notTCPVars

InitTCP == PoolIdle /\ ShardedInit("none") /\ FrameInit("none") /\ NoUDP

NextTCP ==
    \/ \E ok \in BOOLEAN : TCPAccept(ok)
    \/ \E k \in 1..Len(accepted), ok \in BOOLEAN : TCPHandle(k, ok)
    \/ \E k \in 1..Len(accepted) : TCPDeferred(k)

SpecTCP == InitTCP /\ [][NextTCP]_vars

Priorities(q) == {q[k].priority : k \in 1..Len(q)}

IsMax(x, S) == x \in S /\ \A y \in S : y <= x

\* The entries of a heap as a bag: how often each (value, priority) occurs.
Entries(q) ==
    [e \in {q[k] : k \in 1..Len(q)} |-> Cardinality({k \in 1..Len(q) : q[k] = e})]

\* C9: Pop on a non-empty queue removes and returns an entry whose recorded
\* push timestamp is the largest in the queue and reports that timestamp; on an
\* empty queue it returns ok = false and leaves the queue empty.
C9_PopReturnsLatestTimestamp ==
    lastPop.valid =>
        IF lastPop.before = <<>>
        THEN ~lastPop.ok /\ lastPop.after = <<>>
        ELSE /\ lastPop.ok
             /\ \E k \in 1..Len(lastPop.before) :
                   LET e == lastPop.before[k] IN
                   /\ e.value = lastPop.value
                   /\ IsMax(e.priority, Priorities(lastPop.before))
                   /\ lastPop.timestamp = TimeUnix(e.priority)
                   /\ Entries(lastPop.before) = Entries(lastPop.after) (+) SetToBag({e})

\* C9's case: a Pop from a queue of at least three entries pushed in different
\* seconds, where the newest entry is not the one at the end of the heap array.
C9_Witness ==
    /\ lastPop.valid /\ lastPop.ok
    /\ Len(lastPop.before) >= 3
    /\ Cardinality(Priorities(lastPop.before)) >= 2
    /\ lastPop.before[Len(lastPop.before)].value # lastPop.value

\* C10: Pop returns the entry that was pushed last, also when entries were
\* pushed within the same second.
C10_PopReturnsLastPushed ==
    (lastPop.valid /\ lastPop.ok) => lastPop.value = lastPop.newest

\* How often connection c is in the queue.
ResidentCount(c) == Cardinality({k \in 1..Len(store) : store[k].value = c})

IsResident(c) == ResidentCount(c) >= 1

\* The wrappers of c handed out by Conn() whose release has not run yet.
Holders(c) ==
    {i \in Live : wrappers[i].conn = c /\ wrappers[i].pushes + wrappers[i].closes = 0}

IsCheckedOut(c) == Holders(c) # {}

IsClosed(c) == closeCalls[c] >= 1

\* Conn() popped c stale and the goroutine of "go conn.Close()" has not run.
AwaitsStaleClose(c) == \E t \in tasks : t.op = "StaleClose" /\ t.conn = c

B(x) == IF x THEN 1 ELSE 0

Ended(p) == pc[p] \in {"done", "failedRead", "failedAcquire", "failedUpstream",
                        "failedWrite"}

\* C1 as stated: every connection the pool has handed out is in exactly one of
\* three states: in the queue, checked out to exactly one request, closed.
C1_ExactlyOneOfThree ==
    \A c \in handedOut :
        /\ Cardinality(Holders(c)) <= 1
        /\ ResidentCount(c) <= 1
        /\ B(IsResident(c)) + B(IsCheckedOut(c)) + B(IsClosed(c)) = 1

\* C1 amended: every connection the pool has handed out is in exactly one of
\* four states: in the queue, checked out to exactly one request, closed, or
\* popped as stale and waiting for the asynchronous close Conn() scheduled. It
\* is never held by two requests, nor both in the queue and checked out.
C1_ExactlyOneOfFour ==
    \A c \in handedOut :
        /\ Cardinality(Holders(c)) <= 1
        /\ ResidentCount(c) <= 1
        /\ B(IsResident(c)) + B(IsCheckedOut(c)) + B(IsClosed(c))
               + B(AwaitsStaleClose(c)) = 1

\* C1's case: two requests hold connections at the same time while a third
\* connection the pool handed out before has been closed.
C1_Witness ==
    \E i, j \in Live :
        /\ wrappers[i].owner # wrappers[j].owner
        /\ wrappers[i].txn = "none" /\ wrappers[j].txn = "none"
        /\ {wrappers[i].conn, wrappers[j].conn} \subseteq handedOut
        /\ \E c \in handedOut : IsClosed(c)

\* C2: with capacity C > 0 the queue never holds more than C connections.
C2_SizeWithinCapacity == capacity > 0 => Size(store) <= capacity

\* C2's case: the queue is full and a released connection was refused by it
\* and closed (no Destroy and no stale discard can have closed it).
C2_Witness ==
    /\ capacity > 0 /\ Size(store) = capacity
    /\ staleTimeout = 0
    /\ \A p \in Procs : count[p].destroys = 0
    /\ \E c \in AllConns : closeCalls[c] = 1

\* C3 as stated: once Destroy() was the first release call on a wrapper, the
\* wrapper's closer has closed the stream exactly once and never pushed the
\* connection, whatever calls followed.
C3_DestroyClosesOnce ==
    \A i \in Live :
        wrappers[i].firstOp = "Destroy" =>
            wrappers[i].closes = 1 /\ wrappers[i].pushes = 0

\* C4 as stated: on a wrapper whose calls after the first are all Close(), only
\* the first release call has an effect, so the connection is pushed at most
\* once and a Close() after it neither pushes nor closes.
C4_CloseIdempotent ==
    \A i \in Live :
        (wrappers[i].destroyIssued = 0
            \/ (wrappers[i].destroyIssued = 1 /\ wrappers[i].firstOp = "Destroy"))
        => wrappers[i].pushes + wrappers[i].closes <= 1

\* C5: every connection proxyUpstream acquires gets exactly one release call,
\* issued before the request ends: Destroy() exactly when its transaction
\* failed, Close() exactly when it succeeded; never none, never both.
C5_ExactlyOneRelease ==
    /\ \A i \in Live :
          LET w == wrappers[i]
              mine == {t \in tasks : t.op \in {"Close", "Destroy"} /\ t.w = i}
          IN
          /\ w.txn = "none" =>
                /\ w.closeIssued = 0 /\ w.destroyIssued = 0 /\ mine = {}
                /\ pc[w.owner] = "transact" /\ upstream[w.owner] = i
          /\ w.txn = "fail" =>
                /\ w.destroyIssued = 1 /\ w.closeIssued = 0
                /\ mine = {GoTask("Destroy", i, w.conn)}
          /\ w.txn = "ok" =>
                /\ w.closeIssued = 1 /\ w.destroyIssued = 0
                /\ mine = {GoTask("Close", i, w.conn)}
    /\ \A p \in Procs :
          Ended(p) => count[p].acquired = count[p].closes + count[p].destroys

\* C5's case: a finished request that destroyed one connection after a failed
\* transaction and closed the next after a successful one.
C5_Witness ==
    \E p \in Procs :
        /\ pc[p] = "done"
        /\ count[p].acquired = 2 /\ count[p].destroys = 1 /\ count[p].closes = 1

\* The numbers of a request that used up the retry budget r.
Exhausted(p, r) ==
    /\ count[p].attempts = r + 1
    /\ count[p].destroys = r + 1
    /\ count[p].retryEmits = r

\* C6 as stated: with budget R > 0 a request that ended in an error after
\* transactions that all failed has made R+1 attempts, R+1 Destroy() calls and
\* R retry observations.
C6_AllFailedCounts ==
    \A p \in Procs :
        (/\ pc[p] \in {"failedAcquire", "failedUpstream"}
         /\ count[p].attempts >= 1 /\ count[p].closes = 0)
        => Exhausted(p, maxUpstreamRetries)

\* C6 amended: with budget R > 0 a request whose every acquisition succeeded
\* and whose every transaction failed has made R+1 attempts, R+1 Destroy()
\* calls and R retry observations when it ends in its error; until then the
\* retries left and the retries made add up to R.
C6_ExhaustedCounts ==
    \A p \in Procs :
        /\ pc[p] = "failedUpstream" =>
              /\ Exhausted(p, maxUpstreamRetries)
              /\ count[p].acquired = maxUpstreamRetries + 1 /\ count[p].closes = 0
        /\ pc[p] \in {"acquire", "dial", "transact"} =>
              /\ retries[p] + count[p].retryEmits = maxUpstreamRetries
              /\ count[p].attempts = count[p].retryEmits
              /\ count[p].destroys = count[p].retryEmits

\* C6's case: a request with the largest budget has used it up.
C6_Witness ==
    \E p \in Procs : pc[p] = "failedUpstream" /\ maxUpstreamRetries = MaxRetriesCfg

\* C7 as stated: MaxUpstreamRetries <= 0 becomes a budget of 16, and a request
\* whose every transaction fails ends in its error after 16 failed transactions.
C7_SixteenTransactions ==
    \A p \in Procs :
        /\ pc[p] \in {"acquire", "dial", "transact"} =>
              retries[p] + count[p].retryEmits = DefaultMaxRetries
        /\ pc[p] = "failedUpstream" => count[p].attempts = DefaultMaxRetries

\* C7 amended: MaxUpstreamRetries <= 0 becomes a budget of 16, and a request
\* whose every acquisition succeeds and whose every transaction fails ends in
\* its error after 17 failed transactions: the first attempt and 16 retries.
C7_SeventeenTransactions ==
    \A p \in Procs :
        /\ pc[p] \in {"acquire", "dial", "transact"} =>
              retries[p] + count[p].retryEmits = DefaultMaxRetries
        /\ pc[p] = "failedUpstream" =>
              /\ count[p].attempts = DefaultMaxRetries + 1
              /\ count[p].retryEmits = DefaultMaxRetries

\* C7's case: a request configured with 0 retries has ended in its error.
C7_Witness ==
    \E p \in Procs : pc[p] = "failedUpstream" /\ maxUpstreamRetries = 0

\* The stale connection c was closed or its close is scheduled.
Discarded(c) == IsClosed(c) \/ AwaitsStaleClose(c)

\* C8: with a positive stale timeout Conn() never returns a popped connection
\* older than the timeout; a stale entry is handed to a close, is not the one
\* returned, and the call goes on to dial.
C8_StaleNeverReturned ==
    staleTimeout > 0 =>
        /\ \A i \in Live :
              LET w == wrappers[i] IN
              /\ w.popAge # -1 => w.popAge <= staleTimeout
              /\ w.discarded # Nil =>
                    /\ w.conn # w.discarded /\ w.popAge = -1
                    /\ Discarded(w.discarded)
        /\ \A p \in Procs :
              stale[p].conn # Nil =>
                  /\ pc[p] = "dial"
                  /\ Discarded(stale[p].conn)
                  /\ ~IsResident(stale[p].conn) /\ ~IsCheckedOut(stale[p].conn)

\* C8's case: Conn() popped an entry older than the timeout, closed it and
\* returned a freshly dialled connection.
C8_Witness ==
    /\ staleTimeout > 0
    /\ \E i \in Live :
          /\ wrappers[i].discarded # Nil
          /\ wrappers[i].discardedAge > staleTimeout
          /\ IsClosed(wrappers[i].discarded)

\* C11: Push returns false exactly when the capacity is positive and the
\* queue holds that many entries; a refused Push leaves the queue as it was,
\* an accepted one adds its entry, and with capacity <= 0 no Push is refused.
C11_PushRejectsIffFull ==
    lastPush.valid =>
        /\ lastPush.ok = ~(capacity > 0 /\ Len(lastPush.before) = capacity)
        /\ ~lastPush.ok => lastPush.after = lastPush.before
        /\ lastPush.ok =>
              \E e \in {lastPush.after[k] : k \in 1..Len(lastPush.after)} :
                  /\ e.value = lastPush.value
                  /\ Entries(lastPush.after) = Entries(lastPush.before) (+) SetToBag({e})
        /\ capacity <= 0 => lastPush.ok

\* C11's case: a queue of capacity 2 or more, full, has refused a Push.
C11_Witness ==
    /\ lastPush.valid /\ ~lastPush.ok
    /\ capacity >= 2 /\ Len(lastPush.after) = capacity

\* C12 as stated: a pool of capacity 0 retains nothing: its queue stays
\* empty, every connection Conn() returns was dialled by that call, and a
\* Close() on a wrapper that was not destroyed closes the stream.
C12_ZeroCapacityRetainsNothing ==
    capacity = 0 =>
        /\ Size(store) = 0
        /\ \A i \in Live :
              /\ wrappers[i].popAge = -1
              /\ wrappers[i].pushes = 0
              /\ (wrappers[i].closeIssued >= 1 /\ wrappers[i].destroyIssued = 0)
                     => wrappers[i].closes >= 1

RECURSIVE Pow2(_)
Pow2(n) == IF n <= 0 THEN 1 ELSE 2 * Pow2(n - 1)

\* The number of failures at the end of the history h that each came within
\* 30 s of the one before.
RECURSIVE Streak(_)
Streak(h) ==
    IF Len(h) <= 1 THEN Len(h)
    ELSE IF h[Len(h)] - h[Len(h) - 1] > FailedClientExpiry THEN 1
    ELSE 1 + Streak(SubSeq(h, 1, Len(h) - 1))

\* C13: under the availability policy a client whose last k failures each came
\* within 30 s of the one before has errorExpiry = 100 ms x 2^(k-1) (100 ms
\* after a first failure or one more than 30 s after the previous), lastError
\* is the time of the last failure, also when concurrent calls fail together.
C13_ExpiryDoubles ==
    policy = "Availability" =>
        \A c \in Clients :
            IF failTimes[c] = <<>>
            THEN errorExpiry[c] = 0 /\ lastError[c] = ZeroTime
            ELSE /\ errorExpiry[c] = InitialExpiry * Pow2(Streak(failTimes[c]) - 1)
                 /\ lastError[c] = failTimes[c][Len(failTimes[c])]

\* C13's case: two concurrent calls failed on the same client at the same
\* instant and a third failure came exactly 30 s later: 400 ms.
C13_Witness ==
    /\ policy = "Availability"
    /\ \E c \in Clients :
          /\ Len(failTimes[c]) = 3
          /\ failTimes[c][1] = failTimes[c][2]
          /\ errorExpiry[c] = 4 * InitialExpiry

\* C14 as stated: a Conn() call on the availability client over N clients
\* delegates to at most N child Conn() calls, whatever fails and however much
\* time passes between its attempts.
C14_AtMostNDelegations ==
    policy = "Availability" =>
        \A p \in Callers : call[p].delegations <= NumClients

\* C15: selectAvailable finds a client eligible exactly when its lastError is
\* zero or now - lastError > errorExpiry; when it found none, Conn() returns
\* the "no live clients" error, and that return calls no child client and
\* changes no lastError and no errorExpiry.
C15_EligibleOrNoLiveClients ==
    [][\A p \in Callers :
          /\ (call[p].pc = "scan" /\ call'[p].pc = "scan"
                  /\ call'[p].scan = call[p].scan + 1) =>
                LET c == call[p].scan IN
                /\ (c \in call'[p].eligible) <=>
                       (lastError[c] = ZeroTime \/ wall - lastError[c] > errorExpiry[c])
                /\ call'[p].eligible \ {c} = call[p].eligible
          /\ (call[p].pc = "scan" /\ call[p].scan > NumClients
                  /\ call[p].eligible = {} /\ call'[p] # call[p]) =>
                call'[p].pc = "error"
          /\ (call[p].pc = "scan" /\ call'[p].pc = "error") =>
                /\ call[p].eligible = {}
                /\ call'[p].delegations = call[p].delegations
                /\ \A q \in Callers \ {p} : call'[q] = call[q]
                /\ lastError' = lastError /\ errorExpiry' = errorExpiry
    ]_vars

\* C15's case: every client has failed and a call has come back with the
\* "no live clients" error.
C15_Witness ==
    /\ policy = "Availability"
    /\ \A c \in Clients : lastError[c] # ZeroTime
    /\ \E p \in Callers :
          /\ call[p].pc = "error" /\ call[p].eligible = {}
          /\ call[p].scan > NumClients

\* Client c is inside its backoff window.
InWindow(c) == lastError[c] # ZeroTime /\ wall - lastError[c] <= errorExpiry[c]

\* Caller p invokes Conn() on its target in this step.
Invokes(p) ==
    /\ policy = "Availability"
    /\ call[p].pc = "call"
    /\ call'[p].delegations = call[p].delegations + 1

\* C16 as stated: no child client's Conn() is invoked at a moment when the
\* client is inside its backoff window.
C16_NeverInvokedInWindow ==
    [][\A p \in Callers : Invokes(p) => ~InWindow(call[p].target)]_vars

\* C16 amended: a client inside its backoff window is excluded from selection:
\* selectAvailable never finds a client eligible that is inside its window at
\* the moment it is examined, and Conn() invokes only a client that its own
\* selectAvailable found eligible.
C16_NeverSelectedInWindow ==
    [][\A p \in Callers :
          /\ (call[p].pc = "scan" /\ call'[p].pc = "scan"
                  /\ call'[p].scan = call[p].scan + 1) =>
                (InWindow(call[p].scan) => call[p].scan \notin call'[p].eligible)
          /\ (call[p].pc = "scan" /\ call'[p].pc = "call") =>
                call'[p].target \in call[p].eligible
          /\ Invokes(p) => call[p].target \in call[p].eligible
    ]_vars

\* C16's case: a call is about to invoke the client it selected, and a
\* concurrent call has put that client into its backoff window meanwhile.
C16_Witness ==
    /\ policy = "Availability"
    /\ \E p \in Callers :
          /\ call[p].pc = "call"
          /\ call[p].target \in call[p].eligible
          /\ InWindow(call[p].target)

\* The sum of the successful and failed counters over all the clients.
TotalCounted ==
    aggregateClientsStats(Clients).successful + aggregateClientsStats(Clients).failed

IsLengthPrefixed(s, m) ==
    /\ Len(s) = Len(m) + 2
    /\ s[1] \in 0..255 /\ s[2] \in 0..255
    /\ s[1] * 256 + s[2] = Len(m)
    /\ SubSeq(s, 3, Len(s)) = m

\* The request was written to the upstream.
Written == fpc \in {"write", "done", "failedWrite", "failedUpstream"}

\* C18: over UDP, for a payload M of at most 1024 bytes, the bytes written to
\* the upstream are be16(L) || M, and when the upstream answers be16(L') || M'
\* the bytes written back to the client are M'.
C18_UdpFraming ==
    (transport = "UDP" /\ Len(clientMsg) <= 1024) =>
        /\ Written => IsLengthPrefixed(wire, clientMsg)
        /\ fpc = "done" => clientOut = answer

\* C18's case: a datagram of 1024 bytes was answered with a payload whose
\* length needs both octets, and the answer was written to the client.
C18_Witness ==
    /\ transport = "UDP" /\ fpc = "done"
    /\ Len(clientMsg) = 1024 /\ Len(answer) >= 256

\* C19: over TCP the bytes written to the upstream are the bytes read from the
\* client, and the bytes written back to the client are the upstream's
\* two-octet length prefix followed by its payload.
C19_TcpVerbatim ==
    transport = "TCP" =>
        /\ Written => wire = SubSeq(clientMsg, 1, Min(Len(clientMsg), 1024))
        /\ fpc = "done" => IsLengthPrefixed(clientOut, answer)

\* C19's case: a TCP request was answered and the answer written back.
C19_Witness ==
    /\ transport = "TCP" /\ fpc = "done"
    /\ Len(clientMsg) = 2 /\ Len(answer) = 256

\* What request p has done to the client's stream and to the upstream, by
\* where it stands.
ClientStreamOnce(p) ==
    /\ count[p].clientReads = IF pc[p] \in {"idle", "off", "api"} THEN 0 ELSE 1
    /\ count[p].clientWrites = IF pc[p] \in {"done", "failedWrite"} THEN 1 ELSE 0
    /\ pc[p] = "failedRead" =>
          count[p].acquired = 0 /\ count[p].attempts = 0 /\ upstream[p] = Nil
    /\ pc[p] \in {"write", "done", "failedWrite"} =>
          count[p].closes = 1 /\ count[p].attempts = count[p].destroys + 1

\* C20: a request reads the client's stream exactly once and writes it at most
\* once; a failed read ends it before any upstream connection is acquired, a
\* failed write ends it with no further upstream transaction, and the retries
\* in between neither read from nor write to the client.
C20_ClientStreamOnce ==
    /\ [](\A p \in Procs : ClientStreamOnce(p))
    /\ [][\A p \in Procs :
             /\ pc[p] \in {"failedRead", "failedWrite"} =>
                   pc'[p] = pc[p] /\ count'[p] = count[p] /\ upstream'[p] = upstream[p]
             /\ pc[p] \in {"acquire", "dial", "transact"} =>
                   /\ count'[p].clientReads = count[p].clientReads
                   /\ count'[p].clientWrites = count[p].clientWrites
       ]_vars

\* C20's case: after a retry the response could not be written to the client.
C20_Witness ==
    \E p \in Procs :
        /\ pc[p] = "failedWrite"
        /\ count[p].retryEmits >= 1
        /\ count[p].clientReads = 1 /\ count[p].clientWrites = 1

\* C21: a request that failed at its client read, at its upstream acquire or
\* after its retry budget ran out has written nothing to the client; a write
\* to the client is made only by a request whose upstream transaction
\* succeeded, after that transaction.
C21_NoResponseOnFailure ==
    \A p \in Procs :
        /\ pc[p] \in {"failedRead", "failedAcquire", "failedUpstream"} =>
              count[p].clientWrites = 0
        /\ (pc[p] = "write" \/ count[p].clientWrites >= 1) =>
              /\ count[p].closes = 1
              /\ count[p].attempts = count[p].destroys + 1

\* C21's case: one request has used up its retries and another was refused a
\* connection after a failed transaction, and neither wrote to its client,
\* while requests that got an answer did.
C21_Witness ==
    \E p, q \in Procs :
        /\ pc[p] = "failedUpstream" /\ count[p].attempts >= 2
        /\ count[p].clientWrites = 0
        /\ pc[q] = "failedAcquire" /\ count[q].attempts >= 1
        /\ count[q].clientWrites = 0

\* C22: a Conn() call on the failover client asks its clients strictly in
\* list order, each only after all the clients before it failed in this call;
\* it returns the connection of the first client that succeeds and asks no
\* client after it; it returns the "all clients failed" error only after
\* every client failed.
C22_FailoverInListOrder ==
    policy = "Failover" =>
        \A p \in Callers :
            LET h == call[p].tried IN
            /\ \A k \in 1..Len(h) : h[k].client = k
            /\ \A k \in 1..(Len(h) - 1) : ~h[k].ok
            /\ Len(h) = call[p].delegations
            /\ call[p].pc = "call" =>
                  call[p].target = Len(h) + 1 /\ call[p].target \in Clients
            /\ call[p].pc = "done" => (Len(h) >= 1 /\ h[Len(h)].ok)
            /\ (Len(h) >= 1 /\ h[Len(h)].ok) => call[p].pc = "done"
            /\ call[p].pc = "error" =>
                  (Len(h) = NumClients /\ \A k \in 1..Len(h) : ~h[k].ok)

\* C22's case: one call returned the last client's connection after every
\* client before it failed, while another call had all its clients fail.
C22_Witness ==
    /\ policy = "Failover"
    /\ \E p, q \in Callers :
          /\ call[p].pc = "done" /\ Len(call[p].tried) = NumClients
          /\ call[q].pc = "error"

\* C23: while the Conn() calls on the round-robin client have not overlapped,
\* the k-th call (k = 0, 1, 2, ..., the number of calls completed before it) is
\* delegated to client k mod N, whatever the outcomes of the earlier calls,
\* and between calls the cursor is k mod N.
C23_SequentialRoundRobin ==
    (policy = "RoundRobin" /\ ~overlapped) =>
        /\ InProgress = {} => rrIdx = completed % NumClients
        /\ \A p \in InProgress :
              /\ call[p].target = (completed % NumClients) + 1
              /\ call[p].pc = "call" => call[p].tried = <<>>
              /\ call[p].pc \in {"rrLoad", "rrStore"} =>
                    /\ Len(call[p].tried) = 1
                    /\ call[p].tried[1].client = (completed % NumClients) + 1

\* C23's case: after N calls that did not overlap, of which one failed, the
\* next call has been delegated to the first client again.
C23_Witness ==
    /\ policy = "RoundRobin" /\ ~overlapped
    /\ completed = NumClients
    /\ aggregateClientsStats(Clients).failed >= 2
    /\ \E p \in Callers :
          /\ call[p].pc = "rrLoad"
          /\ call[p].tried[1].client = 1

C25_UdpConnTwoStates ==
    udpOpts.mode = "api" =>
        LET c == workers[1].conn IN
        /\ lastIO.op # "none" => lastIO.after = c.remote
        /\ (lastIO.op = "Write" /\ lastIO.before = Nil) =>
              /\ lastIO.err = "no remote associated"
              /\ lastIO.to = Nil /\ lastIO.after = Nil
        /\ (lastIO.op = "Read" /\ lastIO.before = Nil) =>
              /\ lastIO.err = "nil" => (lastIO.socketRead /\ lastIO.after = lastIO.from)
              /\ lastIO.err # "nil" => lastIO.after = Nil
        /\ (lastIO.op = "Read" /\ lastIO.before # Nil) =>
              /\ lastIO.err = "already associated"
              /\ ~lastIO.socketRead
        /\ (lastIO.op = "Write" /\ lastIO.before # Nil) =>
              \/ lastIO.to = lastIO.before
              \/ (lastIO.to = Nil /\ lastIO.err = "deadline"
                     /\ udpOpts.WriteTimeout > 0)
        /\ lastIO.before # Nil => lastIO.after = lastIO.before
        /\ c.remote = Nil => socket.sent = <<>>
        /\ \A k \in 1..Len(socket.sent) : socket.sent[k] = c.remote

\* C25's case: a Write was refused before any peer was recorded, a Read then
\* recorded a peer, a second Read was refused, and a Write went to the peer.
C25_Witness ==
    /\ udpOpts.mode = "api"
    /\ socket.calls = 4 /\ socket.reads = 1
    /\ Len(socket.sent) = 1
    /\ lastIO.op = "Read" /\ lastIO.err = "already associated"

\* C26: the UDP listener starts MaxConcurrentConnections workers, 16 when
\* that is configured <= 0, and no more, so that at most that many requests
\* are inside the handler; until all are started the next one can start. A
\* worker enters the handler with a UDPConn that no request has used and that
\* has no peer recorded; every error the handler returns is passed to
\* ConsumeError once, and the worker that returned it serves on.
C26_UdpWorkers ==
    udpOpts.mode = "serve" =>
        LET n == udpOpts.MaxConcurrentConnections
            limit == IF n <= 0 THEN 16 ELSE n
            W == 1..Len(workers)
        IN
        /\ Len(workers) <= limit
        /\ Len(workers) < limit => ENABLED Spawn
        /\ \A w \in W :
              /\ workers[w].pc \in {"read", "upstream", "write"}
              /\ workers[w].pc = "read" => workers[w].conn.remote = Nil
              /\ workers[w].pc # "read" => workers[w].conn.remote \in Peers
        /\ socket.consumed = socket.failed
        /\ socket.consumed = SumOf([w \in W |-> workers[w].errors], W)
        /\ socket.made >= Len(workers) + socket.failed

\* C26's case: with the default in force all 16 workers run; one of them has
\* returned an error and is inside the handler again with a bound UDPConn,
\* while another worker is inside the handler too.
C26_Witness ==
    /\ udpOpts.mode = "serve"
    /\ udpOpts.MaxConcurrentConnections <= 0
    /\ Len(workers) = 16
    /\ \E w, v \in 1..Len(workers) :
          /\ w # v
          /\ workers[w].errors >= 1 /\ workers[w].pc = "write"
          /\ workers[v].pc = "upstream"

\* C27: while no dial of the initial fill has succeeded, the fill has put
\* nothing into the queue and has not stopped the pool: a Conn() call that
\* finds the queue empty goes on to the dialer, the dialer can be called, and
\* when its dial succeeds Conn() returns a wrapper of the connection just
\* dialled, which no caller was given before.
C27_UsableAfterFailedFill ==
    /\ [](fillDialled = {} =>
            /\ \A k \in 1..Len(store) : store[k].value > FillConns
            /\ \A p \in Procs : pc[p] = "dial" => ENABLED ConnDial(p, TRUE))
    /\ [][fillDialled = {} =>
            \A p \in Procs :
                /\ (pc[p] = "acquire" /\ pc'[p] # "acquire" /\ store = <<>>) =>
                       pc'[p] = "dial"
                /\ (pc[p] = "dial" /\ nextConn' = nextConn + 1) =>
                       /\ pc'[p] = AfterConn(TRUE)
                       /\ upstream'[p] \in 1..Len(wrappers')
                       /\ LET w == wrappers'[upstream'[p]] IN
                          /\ w.conn = FillConns + nextConn + 1
                          /\ w.conn \notin handedOut
                          /\ w.owner = p /\ w.popAge = -1]_vars

\* C27's case: the fill has run to its end with every dial failed, and a
\* caller has since been given a connection dialled on demand.
C27_Witness ==
    /\ capacity >= 2 /\ fillI = capacity /\ fillDialled = {}
    /\ \E i \in Live : wrappers[i].conn > FillConns /\ wrappers[i].popAge = -1

\* C28 as stated: the error of a failed acquire reaches the caller only once
\* the retry budget is used up.
C28_AcquireFailureRetried ==
    \A p \in Procs : pc[p] = "failedAcquire" => retries[p] = 0

\* C28, amended: proxyUpstream returns the error of a failed acquire at once,
\* whatever budget remains, emitting no retry observation and leaving the
\* budget as it was; the budget is decremented, and a retry observation
\* emitted, only after a failed upstream transaction while the budget is > 0.
C28_AcquireFailureReturned ==
    [][\A p \in Procs :
          /\ (pc[p] = "dial" /\ pc'[p] # "dial" /\ upstream'[p] = Nil) =>
                 /\ pc'[p] = "failedAcquire"
                 /\ retries'[p] = retries[p]
                 /\ count'[p].retryEmits = count[p].retryEmits
                 /\ count'[p].attempts = count[p].attempts
          /\ pc[p] = "failedAcquire" => pc'[p] = "failedAcquire"
          /\ (pc[p] # "idle" /\ retries'[p] # retries[p]) =>
                 /\ pc[p] = "transact" /\ retries[p] > 0
                 /\ retries'[p] = retries[p] - 1
                 /\ count'[p].retryEmits = count[p].retryEmits + 1
                 /\ pc'[p] = "acquire"]_vars

\* C28's case: a request was refused a connection, first or after a retry,
\* and ended with retries to spare.
C28_Witness ==
    \E p, q \in Procs :
        /\ pc[p] = "failedAcquire" /\ retries[p] >= 1 /\ count[p].retryEmits = 0
        /\ pc[q] = "failedAcquire" /\ retries[q] >= 1 /\ count[q].retryEmits >= 1

\* C29: the EmitError observation is made once for a request whose Handle
\* returned an error, in the step in which Handle returns, and not at all for
\* a request that is still being served or that completed; the number of
\* retries inside the request makes no difference.
C29_OneErrorPerFailedRequest ==
    \A p \in Procs :
        count[p].errorEmits =
            IF pc[p] \in {"failedRead", "failedAcquire", "failedUpstream", "failedWrite"}
            THEN 1 ELSE 0

\* C29's case: a request that used up its retries ended with one EmitError,
\* a request that retried and then succeeded completed with none.
C29_Witness ==
    \E p, q \in Procs :
        /\ pc[p] = "failedUpstream" /\ count[p].retryEmits >= 1
        /\ count[p].errorEmits = 1
        /\ pc[q] = "done" /\ count[q].retryEmits >= 1
        /\ count[q].errorEmits = 0

\* The wrappers request p was given whose Close() or Destroy() has not
\* completed.
Unreleased(p) == {i \in Live : wrappers[i].owner = p}

\* The wrappers request p was given on which it has called neither Close()
\* nor Destroy().
Held(p) ==
    {i \in Unreleased(p) : wrappers[i].closeIssued + wrappers[i].destroyIssued = 0}

\* C30 as stated: a request has at most one connection that it acquired and
\* whose Close() or Destroy() has not completed.
C30_OneUnreleased ==
    \A p \in Procs : Cardinality(Unreleased(p)) <= 1

\* C30, amended: a request has at most one connection that it acquired and on
\* which it has not yet called Close() or Destroy(), retries included: it is
\* the one it transacts over, and the request acquires the next only after it
\* has issued the release of the one before.
C30_OneHeld ==
    \A p \in Procs :
        /\ Cardinality(Held(p)) <= 1
        /\ Held(p) = IF upstream[p] = Nil THEN {} ELSE {upstream[p]}
        /\ upstream[p] # Nil <=> pc[p] = "transact"
        /\ Cardinality(Unreleased(p)) <= 1 + Cardinality(tasks)

\* C30's case: a request transacts over the connection of its retry while
\* the Destroy() of the connection of its failed attempt has not run.
C30_Witness ==
    \E p \in Procs :
        /\ pc[p] = "transact" /\ count[p].retryEmits >= 1
        /\ \E i \in Unreleased(p) :
              /\ i # upstream[p]
              /\ wrappers[i].destroyIssued = 1 /\ wrappers[i].closes = 0

\* C31 as stated, for a capacity of at least 1: from a pool filled to its
\* capacity, once the one request has succeeded the queue holds capacity
\* connections again from some moment on.
C31_PoolRefilled ==
    (pc[1] = "done" /\ capacity >= 1) ~> [](Len(store) = capacity)

\* C31, amended: from a pool filled to its capacity of at least 1, once the
\* one request has succeeded on its first upstream attempt the queue holds
\* capacity connections again from some moment on; a request that succeeded
\* after failed attempts leaves the queue short of the connections it
\* destroyed, though never empty.
C31_PoolRefilledAfterFirstAttempt ==
    /\ (pc[1] = "done" /\ capacity >= 1 /\ count[1].attempts = 1)
            ~> [](Len(store) = capacity)
    /\ (pc[1] = "done" /\ capacity >= 1)
            ~> [](/\ Len(store) >= 1
                  /\ Len(store) >= capacity - count[1].destroys
                  /\ Len(store) <= capacity)

\* C31's case: the request took a connection out of the full queue, got its
\* answer at the first attempt, and the Close() it started has put the
\* connection back.
C31_Witness ==
    /\ capacity = RefillCapacity /\ fillI = capacity /\ fillDialled = 1..capacity
    /\ pc[1] = "done" /\ count[1].attempts = 1
    /\ tasks = {} /\ wrappers = <<>>
    /\ Len(store) = capacity

\* C32 as stated: a Close() on a wrapper that was not destroyed, made while
\* the queue holds capacity entries, closes the stream and leaves the queue as
\* it was; made while the queue holds fewer, it pushes the connection and
\* does not close the stream.
C32_CloseAtCapacity ==
    [][\A i \in Live :
          (/\ i <= Len(wrappers')
           /\ wrappers'[i].closeIssued = wrappers[i].closeIssued + 1
           /\ ~wrappers[i].destroyed) =>
              LET c == wrappers[i].conn IN
              /\ Len(store) = capacity =>
                     store' = store /\ closeCalls'[c] = closeCalls[c] + 1
              /\ Len(store) < capacity =>
                     /\ Len(store') = Len(store) + 1
                     /\ c \in Resident(store')
                     /\ closeCalls'[c] = closeCalls[c]]_vars

\* C33: under the Availability policy the step in which a child Conn()
\* returns, successfully or not, changes no client's lastError or
\* errorExpiry; they change only in the step that follows a failed child
\* Conn() of the same call, and then only for the client that failed.
C33_SuccessLeavesBackoff ==
    [][policy = "Availability" =>
          /\ (\E p \in Callers : call[p].pc = "call" /\ call'[p].pc # "call") =>
                 lastError' = lastError /\ errorExpiry' = errorExpiry
          /\ (lastError' # lastError \/ errorExpiry' # errorExpiry) =>
                 \E p \in Callers :
                     LET h == call[p].tried
                         c == call[p].target
                     IN
                     /\ call[p].pc = "failed" /\ call'[p].pc # "failed"
                     /\ ~call[p].ok
                     /\ h # <<>> /\ h[Len(h)] = [client |-> c, ok |-> FALSE]
                     /\ \A d \in Clients \ {c} :
                            /\ lastError'[d] = lastError[d]
                            /\ errorExpiry'[d] = errorExpiry[d]]_vars

\* C33's case: one client has failed and is backing off, and a call has
\* since got a connection from the other client, whose backoff state is as
\* it was at construction.
C33_Witness ==
    /\ policy = "Availability"
    /\ \E c, d \in Clients :
          /\ c # d
          /\ lastError[c] # ZeroTime /\ errorExpiry[c] >= InitialExpiry
          /\ lastError[d] = ZeroTime /\ errorExpiry[d] = 0
          /\ \E p \in Callers :
                /\ call[p].pc = "done" /\ call[p].target = d
                /\ Len(call[p].tried) >= 2

\* C34: the accept loop of the TCP listener never ends: an Accept error is
\* reported to the connection hook and to ConsumeError and the next Accept can
\* return, and no handler error stops it. Every accepted connection has a
\* goroutine of its own; its stream is closed by that goroutine once, after
\* Handle has returned and whether or not Handle failed, and not before.
C34_TcpAcceptLoop ==
    LET K == 1..Len(accepted) IN
    /\ listener.looping
    /\ listener.accepts < MaxAccepts => ENABLED TCPAccept(TRUE)
    /\ Len(accepted) = listener.opens
    /\ listener.accepts = listener.opens + listener.connectionErrors
    /\ listener.consumed =
           listener.connectionErrors + Cardinality({k \in K : accepted[k].failed})
    /\ listener.closeEmits = Cardinality({k \in K : accepted[k].pc = "exit"})
    /\ \A k \in K :
          /\ accepted[k].pc \in {"handle", "deferred", "exit"}
          /\ accepted[k].closes = IF accepted[k].pc = "exit" THEN 1 ELSE 0
          /\ accepted[k].consumed = IF accepted[k].failed THEN 1 ELSE 0
          /\ accepted[k].pc = "deferred" => ENABLED TCPDeferred(k)

\* C34's case: an Accept failed and a handler failed, and after both a
\* further connection was accepted; the connection of the failed handler and
\* that of a handler that succeeded are closed.
C34_Witness ==
    /\ listener.connectionErrors >= 1
    /\ \E j, k, m \in 1..Len(accepted) :
          /\ j < m /\ k < m
          /\ accepted[j].pc = "exit" /\ accepted[j].failed
          /\ accepted[k].pc = "exit" /\ ~accepted[k].failed
          /\ accepted[m].pc = "handle"

\* The connections dialled on demand so far.
DialledOnDemand == (FillConns + 1)..(FillConns + nextConn)

\* Connection c is resident in the queue, or checked out (wrapped, or popped
\* as stale and about to be closed), or closed.
Accounted(c) ==
    \/ c \in Resident(store)
    \/ \E i \in Live : wrappers[i].conn = c
    \/ \E t \in tasks : t.conn = c
    \/ closeCalls[c] >= 1

\* C35 as stated: every connection dialled with success, by the initial fill
\* or on demand, is resident in the queue, checked out or closed.
C35_NoConnectionDropped ==
    \A c \in fillDialled \cup DialledOnDemand : Accounted(c)

\* C36 as stated: a connection Conn() has popped and discarded as stale had
\* been idle in the queue for the stale timeout or longer, and the age Conn()
\* compared was not above the time the connection had really been idle.
C36_StaleOnlyAfterTimeout ==
    \A p \in Procs :
        (pc[p] = "dial" /\ stale[p].conn # Nil) =>
            /\ stale[p].idle >= staleTimeout
            /\ stale[p].age <= stale[p].idle

\* The times of k failures of one client, the first at construction and each
\* of the others 1 ms after the window the one before it opened has passed.
RECURSIVE FailureTimes(_)
FailureTimes(k) ==
    IF k = 0 THEN <<>>
    ELSE IF k = 1 THEN <<StartTime>>
    ELSE LET h == FailureTimes(k - 1) IN
         Append(h, h[k - 1] + InitialExpiry * Pow2(k - 2) + 1)

\* The errorExpiry of a client whose failures were recorded at the times h.
RECURSIVE ExpiryAfter(_)
ExpiryAfter(h) ==
    IF h = <<>> THEN 0
    ELSE LET n == Len(h)
             before == SubSeq(h, 1, n - 1)
         IN NextExpiry(IF n = 1 THEN ZeroTime ELSE h[n - 1], ExpiryAfter(before), h[n])

\* The availability client after k sequential Conn() calls, each of which
\* found both clients eligible, drew the first, which failed, and then got its
\* connection from the second: the state is the one RecordFailure leaves.
InitBackoff ==
    /\ PoolIdle /\ FrameInit("none") /\ NoUDP
    /\ \E k \in MinPriorFailures..MaxPriorFailures :
          LET h == FailureTimes(k) IN
          /\ policy = "Availability"
          /\ wall = IF k = 0 THEN StartTime ELSE h[k]
          /\ advances = 0
          /\ lastError = [c \in Clients |-> IF c = 1 /\ k > 0 THEN h[k] ELSE ZeroTime]
          /\ errorExpiry = [c \in Clients |->
                               IF c = 1 THEN ExpiryAfter(h) ELSE 0]
          /\ rrIdx = 0
          /\ stats = [c \in Clients |->
                         IF c = 1 THEN [successful |-> 0, failed |-> k]
                         ELSE [successful |-> IF NumClients > 1 THEN k ELSE 0,
                               failed |-> 0]]
          /\ call = [p \in Callers |-> NoCall]
          /\ completed = 0
          /\ failTimes = [c \in Clients |-> IF c = 1 THEN h ELSE <<>>]
          /\ overlapped = FALSE

NextBackoff ==
    \/ \E d \in {ShortStep, LongStep} : Advance(d)
    \/ \E p \in Callers :
          \/ Start(p)
          \/ ScanStep(p)
          \/ SelectEnd(p)
          \/ \E ok \in BOOLEAN : ChildConn(p, ok)
          \/ RecordFailure(p)
          \/ Restart(p)

SpecBackoff == InitBackoff /\ [][NextBackoff]_vars

\* C37 as stated: no client's errorExpiry is ever above 51.2 s.
C37_ExpiryAtMost512 ==
    policy = "Availability" =>
        \A c \in Clients : errorExpiry[c] <= 512 * InitialExpiry

\* C37, amended: as long as no two Conn() calls have run at the same time no
\* client's errorExpiry is above 51.2 s; every call that selected the client
\* before the failure of another call was recorded doubles it once more, so
\* with the callers there are it stays at or below 51.2 s x 2^(callers - 1).
C37_ExpiryBoundedByCallers ==
    policy = "Availability" =>
        \A c \in Clients :
            /\ ~overlapped => errorExpiry[c] <= 512 * InitialExpiry
            /\ errorExpiry[c] <= 512 * InitialExpiry * Pow2(NumCallers - 1)

\* C37's case: the client stood at 25.6 s, two calls selected it once its
\* window had passed, and both failed: 102.4 s.
C37_Witness ==
    /\ policy = "Availability"
    /\ overlapped
    /\ \E c \in Clients :
          /\ errorExpiry[c] = 1024 * InitialExpiry
          /\ Len(failTimes[c]) = 11

\* C38: however the Conn() calls on the round-robin client interleave, the
\* cursor rrIdx is in [0, N), and so are the value a call read from it to
\* index the client list and the value a call's deferred function read from
\* it and has yet to increment.
C38_CursorInRange ==
    policy = "RoundRobin" =>
        /\ rrIdx \in 0..(NumClients - 1)
        /\ \A p \in Callers :
              /\ call[p].pc \in {"call", "rrLoad", "rrStore"} =>
                    call[p].target \in Clients
              /\ call[p].pc = "rrStore" => call[p].tmp \in 0..(NumClients - 1)

\* C38's case: two calls overlapped and one increment of the cursor was
\* lost: with no call in progress the cursor is not the number of calls made
\* modulo N.
C38_Witness ==
    /\ policy = "RoundRobin" /\ overlapped
    /\ InProgress = {}
    /\ completed >= 2
    /\ rrIdx # completed % NumClients

\* C39: the connection of a successful upstream transaction is released with
\* Close() and never with Destroy(), before the response is written to the
\* client; the write to the client, failed or not, touches no pooled
\* connection, no release in progress and not the queue, so the connection
\* is pushed by its Close() as after any success.
C39_WriteFailureKeepsConnection ==
    /\ [](\A i \in Live :
             wrappers[i].txn = "ok" =>
                 /\ wrappers[i].closeIssued = 1
                 /\ wrappers[i].destroyIssued = 0
                 /\ ~wrappers[i].destroyed)
    /\ [](\A p \in Procs :
             pc[p] \in {"write", "done", "failedWrite"} =>
                 count[p].closes = 1 /\ count[p].destroys = count[p].attempts - 1)
    /\ [][\A p \in Procs :
             (pc[p] = "write" /\ pc'[p] # "write") =>
                 /\ pc'[p] \in {"done", "failedWrite"}
                 /\ wrappers' = wrappers /\ tasks' = tasks
                 /\ store' = store /\ closeCalls' = closeCalls
                 /\ count'[p].destroys = count[p].destroys
                 /\ count'[p].closes = count[p].closes]_vars

\* C39's case: a request dialled a connection, got its answer over it and
\* failed to write it to its client; another request has since popped that
\* connection from the queue.
C39_Witness ==
    \E p, q \in Procs :
        /\ p # q
        /\ pc[p] = "failedWrite" /\ count[p].acquired = 1
        /\ nextConn = 1 /\ fillDialled = {}
        /\ pc[q] = "transact"
        /\ wrappers[upstream[q]].conn = FillConns + 1
        /\ wrappers[upstream[q]].popAge >= 0

====
